---- MODULE Spec2Model ----
(***************************************************************************)
(* Real-mode TCE hypercalls of arch/powerpc/kvm/book3s_64_vio_hv.c:        *)
(* H_PUT_TCE, H_PUT_TCE_INDIRECT, H_STUFF_TCE and H_GET_TCE on one guest   *)
(* TCE table (stt) with its attached IOMMU tables and the preregistered    *)
(* memory regions whose "mapped" counters the hypercalls take and drop.    *)
(*                                                                         *)
(* Every hypercall runs to completion on one vcpu and is one action.  The  *)
(* handlers are written as operators from the state before the call (a     *)
(* record s) and the call's arguments to the return code and the state     *)
(* after the call; the actions of Next apply them.  A hypercall leaves its *)
(* arguments, its result and the state it started from in the variable     *)
(* call until the vcpu returns to the guest, which issues the next one.    *)
(***************************************************************************)
EXTENDS Integers, Sequences, FiniteSets, TLC

(***************************************************************************)
(* Geometry of the modelled tables.  All sizes are scaled down: a page of  *)
(* 2^PageShift bytes, TcesPerPage entries in one page of stt->pages.       *)
(***************************************************************************)
\* stt->page_shift; the IOMMU tables' it_page_shift and the host PAGE_SHIFT
\* are taken to be the same
PageShift == 3
PageSize == 2 ^ PageShift
\* stt->liobn of the one table on kvm->arch.spapr_tce_tables
StLiobn == 1
\* stt->offset: first valid index of the table
StOffset == 1
\* stt->size: number of valid indices of the table
StSize == 2
\* TCES_PER_PAGE (PAGE_SIZE / sizeof(u64)), scaled
TcesPerPage == 2
\* longest H_PUT_TCE_INDIRECT list and widest H_STUFF_TCE range explored
MaxNPages == 2
\* the explored runs stop taking references once a counter reaches this
MaxMapped == 2

\* stt->pages[] holds as many pages as the size needs
NumPages == (StSize + TcesPerPage - 1) \div TcesPerPage

H_SUCCESS == "H_SUCCESS"
H_PARAMETER == "H_PARAMETER"
H_HARDWARE == "H_HARDWARE"
H_TOO_HARD == "H_TOO_HARD"

DMA_NONE == "DMA_NONE"
DMA_TO_DEVICE == "DMA_TO_DEVICE"
DMA_FROM_DEVICE == "DMA_FROM_DEVICE"
DMA_BIDIRECTIONAL == "DMA_BIDIRECTIONAL"

\* TCE_PCI_READ | TCE_PCI_WRITE: the two low bits of a TCE
TceFlags(tce) == tce % 4
\* tce & ~(TCE_PCI_READ | TCE_PCI_WRITE)
TceGpa(tce) == tce - TceFlags(tce)

(***************************************************************************)
(* The attached IOMMU tables.  Table 1 covers the indices StOffset and     *)
(* StOffset + 1, table 2 only StOffset.                                    *)
(***************************************************************************)
Tables == {1, 2}
ItOffset(t) == StOffset
ItSize(t) == IF t = 1 THEN 2 ELSE 1
ItEntries(t) == ItOffset(t) .. (ItOffset(t) + ItSize(t) - 1)

(***************************************************************************)
(* Guest memory: one memslot of three pages at guest frame 0, mapped at    *)
(* UserspaceAddr; frame 3 is in no memslot.  Two preregistered regions of  *)
(* one page each cover the first two pages of the memslot; the third page  *)
(* is not preregistered.                                                   *)
(***************************************************************************)
MemslotGfns == 0 .. 2
UserspaceAddr == 4 * PageSize
Regions == {1, 2}
NoMem == 0
RegionUa(r) == UserspaceAddr + (r - 1) * PageSize
RegionHpa(r) == (7 + r) * PageSize

VARIABLES
    pages,      \* stt->pages: pages[p][k] is entry p * TcesPerPage + k
    hw,         \* hw[t][e]: hardware TCE of IOMMU table t at entry e
    it_userspace, \* it_userspace[t][e]: userspace address recorded for e
    mapped,     \* mapped[r]: live-mapping counter of preregistered region r
    groups,     \* stt->groups: the kg->tbl of each attached group, in order
    prereg,     \* mm_iommu_preregistered(mm): the regions are registered
    call        \* the hypercall the vcpu is returning from (fn = "none" in
                \* the guest): arguments, environment, result, state before

\* book3s_hv_builtin.c: the threads of a core leaving the guest, and the
\* interrupt presentation controller of the thread that reads its interrupt
VARIABLES
    split,          \* local_paca->kvm_hstate.kvm_split_mode is set (sip)
    entry_exit_map, \* entry_exit_map[v]: vc->entry_exit_map of vcore v
    thr,            \* thr[c]: where thread c is in kvmhv_commence_exit, its
                    \* trap, its local ee and its index i into master_vcs
    ipis,           \* ipis[c][d]: kvmhv_rm_send_ipi(d) calls made by c
    host_ipi,       \* local_paca->kvm_hstate.host_ipi
    icp,            \* the thread's ICP: pending XIRR source, MFRR
    saved_xirr,     \* local_paca->kvm_hstate.saved_xirr
    intr,           \* the kvmppc_read_intr call: statement reached, locals,
                    \* result, and what it saw and wrote on the way
    vcpus           \* vcpus[v]: the map or unmap vcpu v is running in real
                    \* mode on one entry of an IOMMU table, and its locals

hv == <<split, entry_exit_map, thr, ipis, host_ipi, icp, saved_xirr, intr,
        vcpus>>

tce_state == <<pages, hw, it_userspace, mapped, groups, prereg, call>>

vars == <<pages, hw, it_userspace, mapped, groups, prereg, call, hv>>

\* the part of the state the hypercalls change, and two notes on the running
\* call: reads, how many entries of the list page it has loaded, and failed,
\* whether a map, an unmap, an exchange or the release of a reference has
\* reported a failure to its caller (none and no before the call starts);
\* and the lock bit of the list page's rmap entry with the number of
\* lock_rmap and unlock_rmap calls made on it
Cur == [pages |-> pages, hw |-> hw, pua |-> it_userspace, mapped |-> mapped,
        reads |-> 0, failed |-> FALSE, rmap |-> FALSE, locks |-> 0,
        unlocks |-> 0]

Ret(r, s) == [ret |-> r, s |-> s]
\* a step returns the failure code r to its caller
Fail(r, s) == [ret |-> r, s |-> [s EXCEPT !.failed = TRUE]]

ClearedTce == [hpa |-> 0, dir |-> DMA_NONE]

(***************************************************************************)
(* What the environment decides during one call: which exchange fails, for *)
(* which region taking a reference fails, where a store through a pointer  *)
(* loaded from beyond stt->pages[] lands (nowhere in the table, or on its  *)
(* first entry), whether the host page-table walk for the list page gives  *)
(* up (no pte, a huge page, a page not young), and whether the regions     *)
(* have been torn down so that mm_iommu_lookup_rm finds none.              *)
(***************************************************************************)
NoPair == <<0, 0>>
NoSlot == <<0 - 1, 0>>
Nominal == [xfail |-> NoPair, incfail |-> NoMem, wild |-> NoSlot,
            ptefail |-> FALSE, lost |-> FALSE]
Envs ==
    {Nominal}
    \cup UNION {{[Nominal EXCEPT !.xfail = <<t, e>>] : e \in ItEntries(t)} :
                 t \in Tables}
    \cup {[Nominal EXCEPT !.incfail = 1]}
    \cup {[Nominal EXCEPT !.wild = <<0, 0>>]}
    \cup {[Nominal EXCEPT !.ptefail = TRUE]}
\* the regions have been torn down when the call is made
LostEnv == [Nominal EXCEPT !.lost = TRUE]

(***************************************************************************)
(* Registry and validation layer.                                          *)
(***************************************************************************)
\* TRUE when a table with this liobn is on the list (the code returns the
\* table, or NULL)
kvmppc_find_table(liobn) == liobn = StLiobn

kvmppc_ioba_validate(ioba, npages) ==
    LET idx == ioba \div PageSize
    IN  IF (ioba % PageSize # 0) \/ (idx < StOffset)
           \/ (StOffset + StSize + npages <= idx)
        THEN H_PARAMETER
        ELSE H_SUCCESS

\* mask = ((1 << page_shift) - 1) & ~(TCE_PCI_WRITE | TCE_PCI_READ)
kvmppc_tce_validate(tce) ==
    IF (tce % PageSize) - TceFlags(tce) # 0 THEN H_PARAMETER ELSE H_SUCCESS

iommu_tce_direction(tce) ==
    CASE TceFlags(tce) = 3 -> DMA_BIDIRECTIONAL
      [] TceFlags(tce) = 1 -> DMA_TO_DEVICE
      [] TceFlags(tce) = 2 -> DMA_FROM_DEVICE
      [] OTHER -> DMA_NONE

\* the pre-flight validators of the device-group collaborator; TRUE when the
\* request is refused (the code tests their result for non-zero)
iommu_tce_put_param_check(t, ioba, gpa) ==
    \/ gpa % PageSize # 0
    \/ ioba % PageSize # 0
    \/ (ioba \div PageSize) < ItOffset(t)
    \/ (ioba \div PageSize) + 1 > ItOffset(t) + ItSize(t)

iommu_tce_clear_param_check(t, ioba, tce_value, npages) ==
    \/ tce_value # 0
    \/ ioba % PageSize # 0
    \/ (ioba \div PageSize) < ItOffset(t)
    \/ (ioba \div PageSize) + npages > ItOffset(t) + ItSize(t)

(***************************************************************************)
(* Entry store.  An index beyond the last page of stt->pages[] makes the   *)
(* code load the page pointer from outside the array: the store then lands *)
(* where the environment says, the load yields what the environment says.  *)
(***************************************************************************)
InPages(idx) == idx >= StOffset /\ (idx - StOffset) \div TcesPerPage < NumPages

kvmppc_tce_put(s, idx, tce, F) ==
    LET rel == idx - StOffset
        p == rel \div TcesPerPage
        k == rel % TcesPerPage
    IN  IF InPages(idx) THEN [s EXCEPT !.pages[p][k] = tce]
        ELSE IF F.wild = NoSlot THEN s
        ELSE [s EXCEPT !.pages[F.wild[1]][F.wild[2]] = tce]

\* the load of kvmppc_h_get_tce: tbl[idx % TCES_PER_PAGE] of
\* stt->pages[idx / TCES_PER_PAGE]
TceLoad(s, idx, stray) ==
    LET rel == idx - StOffset
    IN  IF InPages(idx) THEN s.pages[rel \div TcesPerPage][rel % TcesPerPage]
        ELSE stray

(***************************************************************************)
(* Pinned-memory mapper.                                                   *)
(***************************************************************************)
kvmppc_gpa_to_ua(gpa) ==
    LET gfn == gpa \div PageSize
    IN  IF gfn \notin MemslotGfns THEN [ok |-> FALSE, ua |-> 0]
        ELSE [ok |-> TRUE,
              ua |-> UserspaceAddr + gfn * PageSize
                     + ((gpa % PageSize) - TceFlags(gpa))]

\* mm_iommu_lookup_rm behind kvmppc_rm_iommu_lookup: the region that holds
\* [ua, ua + size), NoMem when there is none
kvmppc_rm_iommu_lookup(ua, size, F) ==
    LET hit == {r \in Regions :
                   RegionUa(r) <= ua /\ ua + size <= RegionUa(r) + PageSize}
    IN  IF prereg /\ ~F.lost /\ hit # {} THEN CHOOSE r \in hit : TRUE
        ELSE NoMem

mm_iommu_rm_ua_to_hpa(mem, ua) == RegionHpa(mem) + (ua - RegionUa(mem))

\* the single exchange of the device-group collaborator: the old entry is
\* read and the new one installed together, or it fails and changes nothing
iommu_tce_xchg_rm(s, t, e, hpa, dir, F) ==
    IF F.xfail = <<t, e>>
    THEN [fail |-> TRUE, old |-> ClearedTce, s |-> [s EXCEPT !.failed = TRUE]]
    ELSE [fail |-> FALSE, old |-> s.hw[t][e],
          s |-> [s EXCEPT !.hw[t][e] = [hpa |-> hpa, dir |-> dir]]]

kvmppc_rm_tce_iommu_mapped_dec(s, t, e, F) ==
    LET mem == kvmppc_rm_iommu_lookup(s.pua[t][e], PageSize, F)
    IN  IF mem = NoMem THEN Fail(H_HARDWARE, s)
        ELSE Ret(H_SUCCESS,
                 [s EXCEPT !.mapped[mem] = @ - 1, !.pua[t][e] = 0])

kvmppc_rm_tce_iommu_unmap(s, t, e, F) ==
    LET x == iommu_tce_xchg_rm(s, t, e, 0, DMA_NONE, F)
    IN  IF x.fail THEN Fail(H_HARDWARE, s)
        ELSE IF x.old.dir = DMA_NONE THEN Ret(H_SUCCESS, x.s)
        ELSE kvmppc_rm_tce_iommu_mapped_dec(x.s, t, e, F)

kvmppc_rm_tce_iommu_map(s, t, e, gpa, dir, F) ==
    LET g == kvmppc_gpa_to_ua(gpa)
        mem == kvmppc_rm_iommu_lookup(g.ua, PageSize, F)
    IN  IF ~g.ok THEN Fail(H_HARDWARE, s)
        ELSE IF mem = NoMem THEN Fail(H_HARDWARE, s)
        ELSE IF F.incfail = mem THEN Fail(H_HARDWARE, s)
        ELSE
          LET s1 == [s EXCEPT !.mapped[mem] = @ + 1]
              x == iommu_tce_xchg_rm(s1, t, e,
                                     mm_iommu_rm_ua_to_hpa(mem, g.ua), dir, F)
          IN  IF x.fail
              THEN Fail(H_TOO_HARD, [s1 EXCEPT !.mapped[mem] = @ - 1])
              ELSE
                LET s2 == IF x.old.dir # DMA_NONE
                          THEN kvmppc_rm_tce_iommu_mapped_dec(x.s, t, e, F).s
                          ELSE x.s
                IN  Ret(H_SUCCESS, [s2 EXCEPT !.pua[t][e] = g.ua])

(***************************************************************************)
(* H_PUT_TCE                                                               *)
(***************************************************************************)
kvmppc_rm_h_put_tce_iommu(s, t, ioba, tce, F) ==
    LET entry == ioba \div PageSize
        gpa == TceGpa(tce)
        dir == iommu_tce_direction(tce)
    IN  IF dir = DMA_NONE
        THEN IF iommu_tce_clear_param_check(t, ioba, 0, 1)
             THEN Ret(H_PARAMETER, s)
             ELSE kvmppc_rm_tce_iommu_unmap(s, t, entry, F)
        ELSE IF iommu_tce_put_param_check(t, ioba, gpa)
             THEN Ret(H_PARAMETER, s)
             ELSE kvmppc_rm_tce_iommu_map(s, t, entry, gpa, dir, F)

\* the walk over stt->groups from its i-th element; tbltmp is the table of
\* the group handled last (0 for NULL)
RECURSIVE PutGroups(_, _, _, _, _, _)
PutGroups(s, i, tbltmp, ioba, tce, F) ==
    IF i > Len(groups) THEN Ret(H_SUCCESS, s)
    ELSE IF groups[i] = tbltmp
    THEN PutGroups(s, i + 1, tbltmp, ioba, tce, F)
    ELSE LET r == kvmppc_rm_h_put_tce_iommu(s, groups[i], ioba, tce, F)
         IN  IF r.ret # H_SUCCESS THEN r
             ELSE PutGroups(r.s, i + 1, groups[i], ioba, tce, F)

\* kvmppc_rm_h_put_tce with kvmppc_tce_put moved in front of the walk over
\* the groups
kvmppc_rm_h_put_tce_store_first(s, liobn, ioba, tce, F) ==
    IF ~kvmppc_find_table(liobn) THEN Ret(H_TOO_HARD, s)
    ELSE IF kvmppc_ioba_validate(ioba, 1) # H_SUCCESS
    THEN Ret(kvmppc_ioba_validate(ioba, 1), s)
    ELSE IF kvmppc_tce_validate(tce) # H_SUCCESS
    THEN Ret(kvmppc_tce_validate(tce), s)
    ELSE PutGroups(kvmppc_tce_put(s, ioba \div PageSize, tce, F), 1, 0, ioba,
                   tce, F)

kvmppc_rm_h_put_tce(s, liobn, ioba, tce, F) ==
    IF ~kvmppc_find_table(liobn) THEN Ret(H_TOO_HARD, s)
    ELSE IF kvmppc_ioba_validate(ioba, 1) # H_SUCCESS
    THEN Ret(kvmppc_ioba_validate(ioba, 1), s)
    ELSE IF kvmppc_tce_validate(tce) # H_SUCCESS
    THEN Ret(kvmppc_tce_validate(tce), s)
    ELSE LET g == PutGroups(s, 1, 0, ioba, tce, F)
         IN  IF g.ret # H_SUCCESS THEN g
             ELSE Ret(g.ret, kvmppc_tce_put(g.s, ioba \div PageSize, tce, F))

(***************************************************************************)
(* H_STUFF_TCE                                                             *)
(***************************************************************************)
\* for (i = 0; i < npages; ++i) kvmppc_rm_tce_iommu_unmap(entry + i): the
\* result of each unmap is dropped
RECURSIVE StuffUnmap(_, _, _, _, _, _)
StuffUnmap(s, t, entry, i, npages, F) ==
    IF i >= npages THEN s
    ELSE StuffUnmap(kvmppc_rm_tce_iommu_unmap(s, t, entry + i, F).s,
                    t, entry, i + 1, npages, F)

kvmppc_rm_h_stuff_tce_iommu(s, t, ioba, tce_value, npages, F) ==
    IF iommu_tce_clear_param_check(t, ioba, tce_value, npages)
    THEN Ret(H_PARAMETER, s)
    ELSE Ret(H_SUCCESS, StuffUnmap(s, t, ioba \div PageSize, 0, npages, F))

RECURSIVE StuffGroups(_, _, _, _, _, _, _)
StuffGroups(s, i, tbltmp, ioba, tce_value, npages, F) ==
    IF i > Len(groups) THEN Ret(H_SUCCESS, s)
    ELSE IF groups[i] = tbltmp
    THEN StuffGroups(s, i + 1, tbltmp, ioba, tce_value, npages, F)
    ELSE LET r == kvmppc_rm_h_stuff_tce_iommu(s, groups[i], ioba, tce_value,
                                              npages, F)
         IN  IF r.ret # H_SUCCESS THEN r
             ELSE StuffGroups(r.s, i + 1, groups[i], ioba, tce_value, npages, F)

\* for (i = 0; i < npages; ++i, ioba += (1 << page_shift)) kvmppc_tce_put
RECURSIVE StuffStore(_, _, _, _, _, _)
StuffStore(s, ioba, tce_value, i, npages, F) ==
    IF i >= npages THEN s
    ELSE StuffStore(kvmppc_tce_put(s, ioba \div PageSize, tce_value, F),
                    ioba + PageSize, tce_value, i + 1, npages, F)

kvmppc_rm_h_stuff_tce(s, liobn, ioba, tce_value, npages, F) ==
    IF ~kvmppc_find_table(liobn) THEN Ret(H_TOO_HARD, s)
    ELSE IF kvmppc_ioba_validate(ioba, npages) # H_SUCCESS
    THEN Ret(kvmppc_ioba_validate(ioba, npages), s)
    ELSE IF kvmppc_tce_validate(tce_value) # H_SUCCESS \/ TceFlags(tce_value) # 0
    THEN Ret(H_PARAMETER, s)
    ELSE LET g == StuffGroups(s, 1, 0, ioba, tce_value, npages, F)
         IN  IF g.ret # H_SUCCESS THEN g
             ELSE Ret(H_SUCCESS, StuffStore(g.s, ioba, tce_value, 0, npages, F))

(***************************************************************************)
(* H_GET_TCE: the result and the value left in gpr[4] (absent unless the   *)
(* call succeeds); stray is what a load from beyond stt->pages[] yields.   *)
(***************************************************************************)
NoValue == 0 - 1

kvmppc_h_get_tce(s, liobn, ioba, stray) ==
    IF ~kvmppc_find_table(liobn) THEN [ret |-> H_TOO_HARD, gpr4 |-> NoValue, s |-> s]
    ELSE IF kvmppc_ioba_validate(ioba, 1) # H_SUCCESS
    THEN [ret |-> kvmppc_ioba_validate(ioba, 1), gpr4 |-> NoValue, s |-> s]
    ELSE [ret |-> H_SUCCESS, gpr4 |-> TceLoad(s, ioba \div PageSize, stray),
          s |-> s]

(***************************************************************************)
(* H_PUT_TCE_INDIRECT.  tces is the list read from the guest page at       *)
(* tce_list, already converted by be64_to_cpu; tces[i + 1] is the code's   *)
(* tces[i].                                                                *)
(***************************************************************************)
\* the npages > 512 limit of the list
MaxTceListLen == 512

\* first loop: iommu_tce_put_param_check on every entry
IndirectRefused(t, ioba, tces, npages) ==
    \E i \in 0 .. (npages - 1) :
        iommu_tce_put_param_check(t, ioba + i * PageSize, TceGpa(tces[i + 1]))

\* the list entry tces[i] has been loaded
Loaded(s, i) == [s EXCEPT !.reads = IF @ > i THEN @ ELSE i + 1]

\* the entries the first loop loads: up to the first one refused
IndirectChecked(s, t, ioba, tces, npages) ==
    LET bad == {i \in 0 .. (npages - 1) :
                   iommu_tce_put_param_check(t, ioba + i * PageSize,
                                             TceGpa(tces[i + 1]))}
    IN  IF npages = 0 THEN s
        ELSE IF bad = {} THEN Loaded(s, npages - 1)
        ELSE Loaded(s, CHOOSE i \in bad : \A j \in bad : i <= j)

\* second loop: kvmppc_rm_tce_iommu_map on every entry, from the i-th
RECURSIVE IndirectMap(_, _, _, _, _, _, _)
IndirectMap(s, t, entry, tces, i, npages, F) ==
    IF i >= npages THEN Ret(H_SUCCESS, s)
    ELSE LET tce == tces[i + 1]
             r == kvmppc_rm_tce_iommu_map(Loaded(s, i), t, entry + i,
                                          TceGpa(tce),
                                          iommu_tce_direction(tce), F)
         IN  IF r.ret # H_SUCCESS THEN r
             ELSE IndirectMap(r.s, t, entry, tces, i + 1, npages, F)

kvmppc_rm_h_put_tce_indirect_iommu(s, t, ioba, tces, npages, F) ==
    LET s1 == IndirectChecked(s, t, ioba, tces, npages)
    IN  IF IndirectRefused(t, ioba, tces, npages) THEN Ret(H_PARAMETER, s1)
        ELSE IndirectMap(s1, t, ioba \div PageSize, tces, 0, npages, F)

RECURSIVE IndirectGroups(_, _, _, _, _, _, _)
IndirectGroups(s, i, tbltmp, ioba, tces, npages, F) ==
    IF i > Len(groups) THEN Ret(H_SUCCESS, s)
    ELSE IF groups[i] = tbltmp
    THEN IndirectGroups(s, i + 1, tbltmp, ioba, tces, npages, F)
    ELSE LET r == kvmppc_rm_h_put_tce_indirect_iommu(s, groups[i], ioba, tces,
                                                     npages, F)
         IN  IF r.ret # H_SUCCESS THEN r
             ELSE IndirectGroups(r.s, i + 1, groups[i], ioba, tces, npages, F)

\* the last loop: kvmppc_tce_validate, then kvmppc_tce_put, entry by entry
RECURSIVE IndirectStore(_, _, _, _, _, _)
IndirectStore(s, entry, tces, i, npages, F) ==
    IF i >= npages THEN Ret(H_SUCCESS, s)
    ELSE LET tce == tces[i + 1]
         IN  IF kvmppc_tce_validate(tce) # H_SUCCESS
             THEN Ret(kvmppc_tce_validate(tce), Loaded(s, i))
             ELSE IndirectStore(kvmppc_tce_put(Loaded(s, i), entry + i, tce, F),
                                entry, tces, i + 1, npages, F)

\* the page-table walk of the list page on the path without preregistered
\* memory; TRUE when it gives up (-ENXIO, -EAGAIN)
kvmppc_rm_ua_to_hpa(ua, F) == F.ptefail

lock_rmap(s) == [s EXCEPT !.rmap = TRUE, !.locks = @ + 1]
unlock_rmap(s) == [s EXCEPT !.rmap = FALSE, !.unlocks = @ + 1]
\* unlock_exit: if (rmap) unlock_rmap(rmap); return ret
unlock_exit(r, rmap) ==
    IF rmap THEN [ret |-> r.ret, s |-> unlock_rmap(r.s)] ELSE r

\* kvmppc_rm_h_put_tce_indirect with return H_TOO_HARD in place of the goto
\* when the page-table walk gives up
IndirectChecks_return_locked(s, ioba, tce_list, tces, npages, F) ==
    LET entry == ioba \div PageSize
        l == kvmppc_gpa_to_ua(tce_list)
    IN  IF tce_list % PageSize # 0 THEN Ret(H_PARAMETER, s)
        ELSE IF kvmppc_ioba_validate(ioba, npages) # H_SUCCESS
        THEN Ret(kvmppc_ioba_validate(ioba, npages), s)
        ELSE IF prereg
        THEN IF ~l.ok THEN Ret(H_TOO_HARD, s)
             ELSE IF kvmppc_rm_iommu_lookup(l.ua, PageSize, F) = NoMem
             THEN Ret(H_TOO_HARD, s)
             ELSE LET g == IndirectGroups(s, 1, 0, ioba, tces, npages, F)
                  IN  IF g.ret # H_SUCCESS THEN g
                      ELSE unlock_exit(
                               IndirectStore(g.s, entry, tces, 0, npages, F),
                               FALSE)
        ELSE IF ~l.ok THEN Ret(H_TOO_HARD, s)
             ELSE IF kvmppc_rm_ua_to_hpa(l.ua, F)
             THEN Ret(H_TOO_HARD, lock_rmap(s))
             ELSE unlock_exit(
                      IndirectStore(lock_rmap(s), entry, tces, 0, npages, F),
                      TRUE)

\* kvmppc_rm_h_put_tce_indirect from the test of tce_list on, the table found
\* and the length of the list checked
IndirectChecks(s, ioba, tce_list, tces, npages, F) ==
    LET entry == ioba \div PageSize
        l == kvmppc_gpa_to_ua(tce_list)
    IN  IF tce_list % PageSize # 0 THEN Ret(H_PARAMETER, s)
        ELSE IF kvmppc_ioba_validate(ioba, npages) # H_SUCCESS
        THEN Ret(kvmppc_ioba_validate(ioba, npages), s)
        ELSE IF prereg
        THEN IF ~l.ok THEN Ret(H_TOO_HARD, s)
             ELSE IF kvmppc_rm_iommu_lookup(l.ua, PageSize, F) = NoMem
             THEN Ret(H_TOO_HARD, s)
             ELSE LET g == IndirectGroups(s, 1, 0, ioba, tces, npages, F)
                  IN  IF g.ret # H_SUCCESS THEN g
                      ELSE unlock_exit(
                               IndirectStore(g.s, entry, tces, 0, npages, F),
                               FALSE)
        ELSE IF ~l.ok THEN Ret(H_TOO_HARD, s)
             ELSE IF kvmppc_rm_ua_to_hpa(l.ua, F)
             THEN unlock_exit(Ret(H_TOO_HARD, lock_rmap(s)), TRUE)
             ELSE unlock_exit(
                      IndirectStore(lock_rmap(s), entry, tces, 0, npages, F),
                      TRUE)

\* kvmppc_rm_h_put_tce_indirect with the length of the list tested before
\* the table is looked up
kvmppc_rm_h_put_tce_indirect_cap_first(s, liobn, ioba, tce_list, tces, npages, F) ==
    IF npages > MaxTceListLen THEN Ret(H_PARAMETER, s)
    ELSE IF ~kvmppc_find_table(liobn) THEN Ret(H_TOO_HARD, s)
    ELSE IndirectChecks(s, ioba, tce_list, tces, npages, F)

\* kvmppc_rm_h_put_tce_indirect with the length of the list tested only
\* once the list page has been resolved
kvmppc_rm_h_put_tce_indirect_cap_late(s, liobn, ioba, tce_list, tces, npages, F) ==
    LET l == kvmppc_gpa_to_ua(tce_list)
    IN  IF ~kvmppc_find_table(liobn) THEN Ret(H_TOO_HARD, s)
        ELSE IF tce_list % PageSize # 0 THEN Ret(H_PARAMETER, s)
        ELSE IF kvmppc_ioba_validate(ioba, npages) # H_SUCCESS
        THEN Ret(kvmppc_ioba_validate(ioba, npages), s)
        ELSE IF ~l.ok THEN Ret(H_TOO_HARD, s)
        ELSE IF prereg /\ kvmppc_rm_iommu_lookup(l.ua, PageSize, F) = NoMem
        THEN Ret(H_TOO_HARD, s)
        ELSE IF ~prereg /\ kvmppc_rm_ua_to_hpa(l.ua, F) THEN Ret(H_TOO_HARD, s)
        ELSE IF npages > MaxTceListLen THEN Ret(H_PARAMETER, s)
        ELSE IndirectChecks(s, ioba, tce_list, tces, npages, F)

kvmppc_rm_h_put_tce_indirect(s, liobn, ioba, tce_list, tces, npages, F) ==
    IF ~kvmppc_find_table(liobn) THEN Ret(H_TOO_HARD, s)
    ELSE IF npages > MaxTceListLen THEN Ret(H_PARAMETER, s)
    ELSE IndirectChecks(s, ioba, tce_list, tces, npages, F)

(***************************************************************************)
(* The calls explored.                                                     *)
(***************************************************************************)
\* every index from 0 to the first one past the table, and an ioba that is
\* not page aligned
Iobas == {i * PageSize : i \in 0 .. (StOffset + StSize)}
         \cup {StOffset * PageSize + 4}
\* clear; read of page 0 (region 1); bad low bit; read-write of page 1
\* (region 2); page 1 without direction; read of page 2 (not preregistered);
\* read of page 3 (no memslot)
Tces == {0, 1, 4, PageSize + 3, PageSize, 2 * PageSize + 1, 3 * PageSize + 1}
ListTces == {0, 1, 4}
StuffValues == {0, 1, 4, PageSize}
TceListsOf(n) == [1 .. n -> ListTces]
GroupLists == {<< >>, <<1, 1, 2>>}
\* a list of one entry more than the limit, every entry a clear
LongList == [i \in 1 .. (MaxTceListLen + 1) |-> 0]
\* a liobn no table has
NoLiobn == StLiobn + 1

Idle(s) ==
    [fn |-> "none", liobn |-> 0, ioba |-> 0, tce |-> 0, tce_list |-> 0,
     tces |-> << >>, npages |-> 0, env |-> Nominal, stray |-> 0,
     ret |-> H_SUCCESS, gpr4 |-> NoValue, reads |-> 0, failed |-> FALSE,
     rmap |-> FALSE, locks |-> 0, unlocks |-> 0,
     pc |-> "none", tbl |-> 0, entry |-> 0, gpa |-> 0, dir |-> DMA_NONE,
     mem |-> NoMem, pre |-> s]

PutCalls ==
    {[Idle(Cur) EXCEPT !.fn = "kvmppc_rm_h_put_tce", !.liobn = StLiobn,
                       !.ioba = ioba, !.tce = tce, !.env = F] :
        ioba \in Iobas, tce \in Tces, F \in Envs}
    \cup {[Idle(Cur) EXCEPT !.fn = "kvmppc_rm_h_put_tce", !.liobn = NoLiobn,
                            !.ioba = ioba, !.tce = tce] :
             ioba \in {0, StOffset * PageSize, StOffset * PageSize + 4},
             tce \in {0, 1, 4}}

\* lists of every length at a list page in region 1; one list at a list
\* page that is in the memslot but not preregistered, in no memslot, or not
\* aligned; a list longer than the limit, at a list page in region 1 or in
\* no memslot; a liobn no table has
IndirectCalls ==
    UNION {{[Idle(Cur) EXCEPT !.fn = "kvmppc_rm_h_put_tce_indirect",
                              !.liobn = StLiobn, !.ioba = ioba,
                              !.npages = n, !.tces = tces, !.env = F] :
               ioba \in Iobas, tces \in TceListsOf(n), F \in Envs} :
           n \in 0 .. MaxNPages}
    \cup {[Idle(Cur) EXCEPT !.fn = "kvmppc_rm_h_put_tce_indirect",
                            !.liobn = liobn, !.ioba = StOffset * PageSize,
                            !.tce_list = tce_list, !.npages = 1,
                            !.tces = <<1>>, !.env = F] :
             liobn \in {StLiobn, NoLiobn}, tce_list \in {2 * PageSize, 3 * PageSize, 1},
             F \in {Nominal, [Nominal EXCEPT !.ptefail = TRUE]}}
    \cup {[Idle(Cur) EXCEPT !.fn = "kvmppc_rm_h_put_tce_indirect",
                            !.liobn = liobn, !.ioba = StOffset * PageSize,
                            !.tce_list = tce_list,
                            !.npages = MaxTceListLen + 1, !.tces = LongList] :
             liobn \in {StLiobn, NoLiobn}, tce_list \in {0, 3 * PageSize}}

StuffCalls ==
    {[Idle(Cur) EXCEPT !.fn = "kvmppc_rm_h_stuff_tce", !.liobn = StLiobn,
                       !.ioba = ioba, !.tce = v, !.npages = n, !.env = F] :
        ioba \in Iobas, v \in StuffValues, n \in 0 .. MaxNPages, F \in Envs}
    \cup {[Idle(Cur) EXCEPT !.fn = "kvmppc_rm_h_stuff_tce", !.liobn = NoLiobn,
                            !.ioba = ioba, !.tce = v, !.npages = n] :
             ioba \in {0, StOffset * PageSize}, v \in {0, 1}, n \in {0, 1}}

GetCalls ==
    {[Idle(Cur) EXCEPT !.fn = "kvmppc_h_get_tce", !.liobn = liobn,
                       !.ioba = ioba, !.stray = stray] :
        liobn \in {StLiobn, NoLiobn}, ioba \in Iobas, stray \in Tces}

(***************************************************************************)
(* The threads of a core and the words of entry_exit_map.  Bits 0-7 of a   *)
(* word are the threads of the vcore that entered the guest, bits 8-15 the *)
(* threads that are leaving it, bit 16 the exit request of another         *)
(* sub-core.                                                               *)
(***************************************************************************)
NCpus == 4
Cpus == 0 .. (NCpus - 1)
MAX_SUBCORES == 4
VCORE_EXIT_REQ == 65536
WordBits == 0 .. 16
BOOK3S_INTERRUPT_HV_DECREMENTER == 2432
BOOK3S_INTERRUPT_EXTERNAL == 1280
Traps == {BOOK3S_INTERRUPT_HV_DECREMENTER, BOOK3S_INTERRUPT_EXTERNAL}

Pow2(n) == 2 ^ n
Bit(w, i) == (w \div Pow2(i)) % 2
RECURSIVE Word(_, _)
\* the word whose set bits are the members of bits below n
Word(bits, n) ==
    IF n = 0 THEN 0
    ELSE Word(bits, n - 1) + (IF (n - 1) \in bits THEN Pow2(n - 1) ELSE 0)
BitsOf(w) == {i \in WordBits : Bit(w, i) = 1}
\* a | b and a & ~b
\* (the set of bits is bound, so that it is worked out once for the word)
BitOr(a, b) ==
    CHOOSE w \in {Word(bits, 17) : bits \in {BitsOf(a) \cup BitsOf(b)}} : TRUE
BitAndNot(a, b) ==
    CHOOSE w \in {Word(bits, 17) : bits \in {BitsOf(a) \ BitsOf(b)}} : TRUE

\* sip->master_vcs: the whole core is one vcore of four threads, or it is
\* split into two sub-cores of two threads
master_vcs == IF split THEN <<1, 2>> ELSE <<1>>
Vcores == {1, 2}
ThreadsPerVcore == IF split THEN 2 ELSE 4
\* vc->pcpu, the vcore and the ptid of a thread
Pcpu(v) == (v - 1) * ThreadsPerVcore
VcoreOf(c) == (c \div ThreadsPerVcore) + 1
Ptid(c) == c - Pcpu(VcoreOf(c))

XICS_IPI == 2
IPI_PRIORITY == 4
MfrrIdle == 255
\* an interrupt source of a device
DevIrq == 17
NoIntr == [pc |-> "none", ret |-> 0, path |-> 0, xics_phys |-> TRUE, xisr |-> 0,
           entry_flag |-> 0, recheck_flag |-> 0, acked |-> FALSE,
           resent |-> FALSE]

\* two vcpus of the guest, and a vcpu that is not in a map or unmap
RaceVcpus == {1, 2}
VcpuIdle == [op |-> "none", pc |-> "none", gpa |-> 0, mem |-> NoMem,
             old |-> DMA_NONE, dmem |-> NoMem]

ThrOut == [pc |-> "out", trap |-> 0, ee |-> 0, i |-> 0, first |-> FALSE]

\* no thread in the guest, nothing pending
HvIdle ==
    /\ split = FALSE
    /\ entry_exit_map = [v \in Vcores |-> 0]
    /\ thr = [c \in Cpus |-> ThrOut]
    /\ ipis = [c \in Cpus |-> [d \in Cpus |-> 0]]
    /\ host_ipi = 0
    /\ icp = [dev |-> 0, mfrr |-> MfrrIdle]
    /\ saved_xirr = 0
    /\ intr = NoIntr
    /\ vcpus = [v \in RaceVcpus |-> VcpuIdle]

Init ==
    /\ pages = [p \in 0 .. (NumPages - 1) |-> [k \in 0 .. (TcesPerPage - 1) |-> 0]]
    /\ hw = [t \in Tables |-> [e \in ItEntries(t) |-> ClearedTce]]
    /\ it_userspace = [t \in Tables |-> [e \in ItEntries(t) |-> 0]]
    /\ mapped = [r \in Regions |-> 0]
    /\ groups \in GroupLists
    /\ prereg \in BOOLEAN
    /\ call = Idle(Cur)
    /\ HvIdle

\* the call c ends with result r: the state it leaves, and its record (a
\* hypercall is issued from the guest: call.fn = "none")
Commit(c, r) ==
    /\ \A m \in Regions : r.s.mapped[m] <= MaxMapped
    /\ pages' = r.s.pages
    /\ hw' = r.s.hw
    /\ it_userspace' = r.s.pua
    /\ mapped' = r.s.mapped
    /\ call' = [c EXCEPT !.ret = r.ret, !.reads = r.s.reads,
                         !.failed = r.s.failed, !.rmap = r.s.rmap,
                         !.locks = r.s.locks, !.unlocks = r.s.unlocks]
    /\ UNCHANGED <<groups, prereg, hv>>

Put ==
    /\ call.fn = "none"
    /\ \E c \in PutCalls :
        Commit(c, kvmppc_rm_h_put_tce(Cur, c.liobn, c.ioba, c.tce, c.env))

PutIndirect ==
    /\ call.fn = "none"
    /\ \E c \in IndirectCalls :
        Commit(c, kvmppc_rm_h_put_tce_indirect(Cur, c.liobn, c.ioba, c.tce_list,
                                               c.tces, c.npages, c.env))

Stuff ==
    /\ call.fn = "none"
    /\ \E c \in StuffCalls :
        Commit(c, kvmppc_rm_h_stuff_tce(Cur, c.liobn, c.ioba, c.tce, c.npages,
                                        c.env))

Get ==
    /\ call.fn = "none"
    /\ \E c \in GetCalls :
        LET g == kvmppc_h_get_tce(Cur, c.liobn, c.ioba, c.stray)
        IN  Commit([c EXCEPT !.gpr4 = g.gpr4], g)

\* the vcpu goes back into the guest
Return ==
    /\ call.fn # "none"
    /\ call' = Idle(Cur)
    /\ UNCHANGED <<pages, hw, it_userspace, mapped, groups, prereg, hv>>

Next == Put \/ PutIndirect \/ Stuff \/ Get \/ Return

Spec == Init /\ [][Next]_vars

(***************************************************************************)
(* The same hypercalls, and H_PUT_TCE calls made after the preregistered   *)
(* regions have been torn down while hardware entries still point into     *)
(* them.                                                                   *)
(***************************************************************************)
LostCalls ==
    {[Idle(Cur) EXCEPT !.fn = "kvmppc_rm_h_put_tce", !.liobn = StLiobn,
                       !.ioba = ioba, !.tce = tce, !.env = LostEnv] :
        ioba \in Iobas, tce \in Tces}

PutLost ==
    /\ call.fn = "none"
    /\ \E c \in LostCalls :
        Commit(c, kvmppc_rm_h_put_tce(Cur, c.liobn, c.ioba, c.tce, c.env))

NextLost == Put \/ PutIndirect \/ Stuff \/ Get \/ Return \/ PutLost

SpecLost == Init /\ [][NextLost]_vars

(***************************************************************************)
(* kvmppc_rm_tce_iommu_map statement by statement, one call after another  *)
(* on the entries of the IOMMU tables.  call.pc is the statement the call   *)
(* has reached, call.mem the region found for the new address and call.dir *)
(* the direction: the one to install, and after the exchange the one the   *)
(* entry held before.                                                      *)
(***************************************************************************)
MapGpas == {i * PageSize : i \in 0 .. 3}
Directions == {DMA_NONE, DMA_TO_DEVICE, DMA_BIDIRECTIONAL}
\* the calls are made on the entries of table 1
MapTables == {1}
MapEnvs == {F \in Envs : F.wild = NoSlot /\ ~F.ptefail
                         /\ F.xfail[1] \in MapTables \cup {0}}

MapCall ==
    /\ call.fn = "none"
    /\ \E t \in MapTables, gpa \in MapGpas, dir \in Directions, F \in MapEnvs :
         \E e \in ItEntries(t) :
            call' = [Idle(Cur) EXCEPT !.fn = "kvmppc_rm_tce_iommu_map",
                                      !.pc = "lookup", !.tbl = t, !.entry = e,
                                      !.gpa = gpa, !.dir = dir, !.env = F]
    /\ UNCHANGED <<pages, hw, it_userspace, mapped, groups, prereg, hv>>

\* the call returns r
MapDone(r) ==
    call' = [call EXCEPT !.pc = "done", !.ret = r,
                         !.failed = r # H_SUCCESS]

\* kvmppc_gpa_to_ua, kvmppc_rm_iommu_lookup, mm_iommu_rm_ua_to_hpa
MapLookup ==
    /\ call.fn = "kvmppc_rm_tce_iommu_map" /\ call.pc = "lookup"
    /\ LET g == kvmppc_gpa_to_ua(call.gpa)
           mem == kvmppc_rm_iommu_lookup(g.ua, PageSize, call.env)
       IN  IF ~g.ok \/ mem = NoMem THEN MapDone(H_HARDWARE)
           ELSE call' = [call EXCEPT !.pc = "inc", !.mem = mem]
    /\ UNCHANGED <<pages, hw, it_userspace, mapped, groups, prereg, hv>>

\* mm_iommu_mapped_inc, with the reference of the mapping the entry holds
\* released at this point already, ahead of the exchange
MapInc_release_first ==
    /\ call.fn = "kvmppc_rm_tce_iommu_map" /\ call.pc = "inc"
    /\ IF call.env.incfail = call.mem
       THEN MapDone(H_HARDWARE) /\ UNCHANGED mapped
       ELSE /\ mapped[call.mem] < MaxMapped
            /\ LET s1 == [Cur EXCEPT !.mapped[call.mem] = @ + 1]
                   r == IF hw[call.tbl][call.entry].dir # DMA_NONE
                        THEN kvmppc_rm_tce_iommu_mapped_dec(
                                 s1, call.tbl, call.entry, call.env)
                        ELSE Ret(H_SUCCESS, s1)
               IN  mapped' = r.s.mapped
            /\ call' = [call EXCEPT !.pc = "xchg"]
    /\ UNCHANGED <<pages, hw, it_userspace, groups, prereg, hv>>

\* mm_iommu_mapped_inc
MapInc ==
    /\ call.fn = "kvmppc_rm_tce_iommu_map" /\ call.pc = "inc"
    /\ IF call.env.incfail = call.mem
       THEN MapDone(H_HARDWARE) /\ UNCHANGED mapped
       ELSE /\ mapped[call.mem] < MaxMapped
            /\ mapped' = [mapped EXCEPT ![call.mem] = @ + 1]
            /\ call' = [call EXCEPT !.pc = "xchg"]
    /\ UNCHANGED <<pages, hw, it_userspace, groups, prereg, hv>>

\* iommu_tce_xchg_rm, with the new reference kept when the exchange fails
MapXchg_keep_ref ==
    /\ call.fn = "kvmppc_rm_tce_iommu_map" /\ call.pc = "xchg"
    /\ LET ua == kvmppc_gpa_to_ua(call.gpa).ua
           x == iommu_tce_xchg_rm(Cur, call.tbl, call.entry,
                                  mm_iommu_rm_ua_to_hpa(call.mem, ua),
                                  call.dir, call.env)
       IN  IF x.fail
           THEN /\ MapDone(H_TOO_HARD)
                /\ UNCHANGED hw
           ELSE /\ hw' = x.s.hw
                /\ call' = [call EXCEPT !.dir = x.old.dir,
                                         !.pc = IF x.old.dir # DMA_NONE
                                                THEN "dec" ELSE "pua"]
    /\ UNCHANGED <<pages, it_userspace, mapped, groups, prereg, hv>>

\* iommu_tce_xchg_rm, and the release of the new reference when it fails
MapXchg ==
    /\ call.fn = "kvmppc_rm_tce_iommu_map" /\ call.pc = "xchg"
    /\ LET ua == kvmppc_gpa_to_ua(call.gpa).ua
           x == iommu_tce_xchg_rm(Cur, call.tbl, call.entry,
                                  mm_iommu_rm_ua_to_hpa(call.mem, ua),
                                  call.dir, call.env)
       IN  IF x.fail
           THEN /\ mapped' = [mapped EXCEPT ![call.mem] = @ - 1]
                /\ MapDone(H_TOO_HARD)
                /\ UNCHANGED hw
           ELSE /\ hw' = x.s.hw
                /\ call' = [call EXCEPT !.dir = x.old.dir,
                                         !.pc = IF x.old.dir # DMA_NONE
                                                THEN "dec" ELSE "pua"]
                /\ UNCHANGED mapped
    /\ UNCHANGED <<pages, it_userspace, groups, prereg, hv>>

\* kvmppc_rm_tce_iommu_mapped_dec for the mapping the entry held
MapDec ==
    /\ call.fn = "kvmppc_rm_tce_iommu_map" /\ call.pc = "dec"
    /\ LET r == kvmppc_rm_tce_iommu_mapped_dec(Cur, call.tbl, call.entry,
                                               call.env)
       IN  /\ mapped' = r.s.mapped
           /\ it_userspace' = r.s.pua
    /\ call' = [call EXCEPT !.pc = "pua"]
    /\ UNCHANGED <<pages, hw, groups, prereg, hv>>

\* *pua = ua; return 0
MapPua ==
    /\ call.fn = "kvmppc_rm_tce_iommu_map" /\ call.pc = "pua"
    /\ it_userspace' = [it_userspace EXCEPT ![call.tbl][call.entry] =
                            kvmppc_gpa_to_ua(call.gpa).ua]
    /\ MapDone(H_SUCCESS)
    /\ UNCHANGED <<pages, hw, mapped, groups, prereg, hv>>

MapReturn ==
    /\ call.fn = "kvmppc_rm_tce_iommu_map" /\ call.pc = "done"
    /\ call' = Idle(Cur)
    /\ UNCHANGED <<pages, hw, it_userspace, mapped, groups, prereg, hv>>

NextMap ==
    MapCall \/ MapLookup \/ MapInc \/ MapXchg \/ MapDec \/ MapPua
    \/ MapReturn

SpecMap == Init /\ [][NextMap]_vars

(***************************************************************************)
(* kvmppc_ioba_validate applied on its own to drawn arguments: every byte   *)
(* address up to a few pages past the table, for one page or more.         *)
(***************************************************************************)
ValidateIobas == 0 .. ((StOffset + StSize + MaxNPages + 1) * PageSize)

IobaValidate ==
    \E ioba \in ValidateIobas, npages \in 1 .. (MaxNPages + 1) :
        /\ call' = [Idle(Cur) EXCEPT !.fn = "kvmppc_ioba_validate",
                                     !.ioba = ioba, !.npages = npages,
                                     !.ret = kvmppc_ioba_validate(ioba, npages)]
        /\ UNCHANGED <<pages, hw, it_userspace, mapped, groups, prereg, hv>>

NextValidate == IobaValidate

SpecValidate == Init /\ [][NextValidate]_vars

(***************************************************************************)
(* kvmhv_commence_exit run by the threads of a core, statement by          *)
(* statement, in any interleaving.  The threads that entered the guest are *)
(* the low bits of the words at the start; each of them leaves once.       *)
(***************************************************************************)
InGuestSets == SUBSET Cpus

InitExit ==
    /\ pages = [p \in 0 .. (NumPages - 1) |-> [k \in 0 .. (TcesPerPage - 1) |-> 0]]
    /\ hw = [t \in Tables |-> [e \in ItEntries(t) |-> ClearedTce]]
    /\ it_userspace = [t \in Tables |-> [e \in ItEntries(t) |-> 0]]
    /\ mapped = [r \in Regions |-> 0]
    /\ groups = << >>
    /\ prereg = TRUE
    /\ call = Idle(Cur)
    /\ split \in BOOLEAN
    /\ \E G \in InGuestSets :
        /\ entry_exit_map =
               [v \in Vcores |-> Word({Ptid(c) : c \in {d \in G : VcoreOf(d) = v}}, 8)]
        /\ thr = [c \in Cpus |-> IF c \in G THEN [ThrOut EXCEPT !.pc = "guest"]
                                 ELSE ThrOut]
    /\ ipis = [c \in Cpus |-> [d \in Cpus |-> 0]]
    /\ host_ipi = 0
    /\ icp = [dev |-> 0, mfrr |-> MfrrIdle]
    /\ saved_xirr = 0
    /\ intr = NoIntr
    /\ vcpus = [v \in RaceVcpus |-> VcpuIdle]

\* kvmhv_interrupt_vcore(vc, active) called by thread c
kvmhv_interrupt_vcore(c, v, active) ==
    CHOOSE f \in {[ipis EXCEPT ![c] = [d \in Cpus |->
                      IF d >= Pcpu(v) /\ (d - Pcpu(v)) \in bits
                      THEN ipis[c][d] + 1 ELSE ipis[c][d]]] :
                  bits \in {BitsOf(active)}} : TRUE

\* thread c takes an interrupt in the guest and enters kvmhv_commence_exit
CommenceExit ==
    \E c \in Cpus, trap \in Traps :
        /\ thr[c].pc = "guest"
        /\ thr' = [thr EXCEPT ![c].pc = "load", ![c].trap = trap]
        /\ UNCHANGED <<tce_state, vcpus, split, entry_exit_map, ipis, host_ipi, icp,
                       saved_xirr, intr>>

\* ee = vc->entry_exit_map
ExitLoad ==
    \E c \in Cpus :
        /\ thr[c].pc = "load"
        /\ thr' = [thr EXCEPT ![c].pc = "cas",
                              ![c].ee = entry_exit_map[VcoreOf(c)]]
        /\ UNCHANGED <<tce_state, vcpus, split, entry_exit_map, ipis, host_ipi, icp,
                       saved_xirr, intr>>

\* after a failed comparison the thread compares again with the value of
\* vc->entry_exit_map it loaded before, without loading the word again
ExitCas_no_reload ==
    \E c \in Cpus :
        /\ thr[c].pc = "cas"
        /\ IF entry_exit_map[VcoreOf(c)] = thr[c].ee
           THEN /\ entry_exit_map' =
                       [entry_exit_map EXCEPT ![VcoreOf(c)] =
                            BitOr(thr[c].ee, 256 * Pow2(Ptid(c)))]
                /\ thr' = [thr EXCEPT
                     ![c].pc = IF thr[c].ee \div 256 # 0 THEN "done" ELSE "send",
                     ![c].first = (thr[c].ee \div 256 = 0)]
           ELSE UNCHANGED <<thr, entry_exit_map>>
        /\ UNCHANGED <<tce_state, vcpus, split, ipis, host_ipi, icp, saved_xirr, intr>>

\* the own bit written by a plain store of ee | me, without the comparison
ExitCas_plain_store ==
    \E c \in Cpus :
        /\ thr[c].pc = "cas"
        /\ entry_exit_map' =
               [entry_exit_map EXCEPT ![VcoreOf(c)] =
                    BitOr(thr[c].ee, 256 * Pow2(Ptid(c)))]
        /\ thr' = [thr EXCEPT
                     ![c].pc = IF thr[c].ee \div 256 # 0 THEN "done" ELSE "send",
                     ![c].first = (thr[c].ee \div 256 = 0)]
        /\ UNCHANGED <<tce_state, vcpus, split, ipis, host_ipi, icp, saved_xirr, intr>>

\* cmpxchg(&vc->entry_exit_map, ee, ee | me), and the test of ee >> 8
ExitCas ==
    \E c \in Cpus :
        /\ thr[c].pc = "cas"
        /\ IF entry_exit_map[VcoreOf(c)] = thr[c].ee
           THEN /\ entry_exit_map' =
                       [entry_exit_map EXCEPT ![VcoreOf(c)] =
                            BitOr(thr[c].ee, 256 * Pow2(Ptid(c)))]
                /\ thr' = [thr EXCEPT
                     ![c].pc = IF thr[c].ee \div 256 # 0 THEN "done" ELSE "send",
                     ![c].first = (thr[c].ee \div 256 = 0)]
           ELSE /\ thr' = [thr EXCEPT ![c].pc = "load"]
                /\ UNCHANGED entry_exit_map
        /\ UNCHANGED <<tce_state, vcpus, split, ipis, host_ipi, icp, saved_xirr, intr>>

\* the other threads of the vcore are interrupted, the caller among them
ExitSend_all ==
    \E c \in Cpus :
        /\ thr[c].pc = "send"
        /\ ipis' = IF thr[c].trap # BOOK3S_INTERRUPT_HV_DECREMENTER
                   THEN kvmhv_interrupt_vcore(c, VcoreOf(c), thr[c].ee)
                   ELSE ipis
        /\ thr' = [thr EXCEPT ![c].pc = IF split THEN "sub_load" ELSE "done",
                              ![c].i = 0]
        /\ UNCHANGED <<tce_state, vcpus, split, entry_exit_map, host_ipi, icp,
                       saved_xirr, intr>>

\* if (trap != BOOK3S_INTERRUPT_HV_DECREMENTER) kvmhv_interrupt_vcore(...);
\* if (!sip) return
ExitSend ==
    \E c \in Cpus :
        /\ thr[c].pc = "send"
        /\ ipis' = IF thr[c].trap # BOOK3S_INTERRUPT_HV_DECREMENTER
                   THEN kvmhv_interrupt_vcore(c, VcoreOf(c),
                            BitAndNot(thr[c].ee, Pow2(Ptid(c))))
                   ELSE ipis
        /\ thr' = [thr EXCEPT ![c].pc = IF split THEN "sub_load" ELSE "done",
                              ![c].i = 0]
        /\ UNCHANGED <<tce_state, vcpus, split, entry_exit_map, host_ipi, icp,
                       saved_xirr, intr>>

\* the loop over sip->master_vcs with no vcore passed over
SubLoad_no_skip ==
    \E c \in Cpus :
        /\ thr[c].pc = "sub_load"
        /\ IF thr[c].i >= MAX_SUBCORES \/ thr[c].i >= Len(master_vcs)
           THEN thr' = [thr EXCEPT ![c].pc = "done"]
           ELSE thr' = [thr EXCEPT ![c].pc = "sub_cas",
                           ![c].ee = entry_exit_map[master_vcs[thr[c].i + 1]]]
        /\ UNCHANGED <<tce_state, vcpus, split, entry_exit_map, ipis, host_ipi, icp,
                       saved_xirr, intr>>

\* the loop over sip->master_vcs: vc = sip->master_vcs[i], ee loaded, and
\* the vcore passed over when it was asked to exit already
SubLoad ==
    \E c \in Cpus :
        /\ thr[c].pc = "sub_load"
        /\ IF thr[c].i >= MAX_SUBCORES \/ thr[c].i >= Len(master_vcs)
           THEN thr' = [thr EXCEPT ![c].pc = "done"]
           ELSE LET ee == entry_exit_map[master_vcs[thr[c].i + 1]]
                IN  IF ee \div 256 # 0
                    THEN thr' = [thr EXCEPT ![c].i = @ + 1, ![c].ee = ee]
                    ELSE thr' = [thr EXCEPT ![c].pc = "sub_cas", ![c].ee = ee]
        /\ UNCHANGED <<tce_state, vcpus, split, entry_exit_map, ipis, host_ipi, icp,
                       saved_xirr, intr>>

\* the request written by a plain store of ee | VCORE_EXIT_REQ
SubCas_plain_store ==
    \E c \in Cpus :
        /\ thr[c].pc = "sub_cas"
        /\ entry_exit_map' =
               [entry_exit_map EXCEPT ![master_vcs[thr[c].i + 1]] =
                    BitOr(thr[c].ee, VCORE_EXIT_REQ)]
        /\ thr' = [thr EXCEPT ![c].pc = "sub_send"]
        /\ UNCHANGED <<tce_state, vcpus, split, ipis, host_ipi, icp, saved_xirr, intr>>

\* cmpxchg(&vc->entry_exit_map, ee, ee | VCORE_EXIT_REQ)
SubCas ==
    \E c \in Cpus :
        /\ thr[c].pc = "sub_cas"
        /\ LET v == master_vcs[thr[c].i + 1]
           IN  IF entry_exit_map[v] = thr[c].ee
               THEN /\ entry_exit_map' =
                           [entry_exit_map EXCEPT ![v] =
                                BitOr(thr[c].ee, VCORE_EXIT_REQ)]
                    /\ thr' = [thr EXCEPT ![c].pc = "sub_send"]
               ELSE /\ thr' = [thr EXCEPT ![c].pc = "sub_load"]
                    /\ UNCHANGED entry_exit_map
        /\ UNCHANGED <<tce_state, vcpus, split, ipis, host_ipi, icp, saved_xirr, intr>>

\* if ((ee >> 8) == 0) kvmhv_interrupt_vcore(vc, ee)
SubSend ==
    \E c \in Cpus :
        /\ thr[c].pc = "sub_send"
        /\ ipis' = kvmhv_interrupt_vcore(c, master_vcs[thr[c].i + 1], thr[c].ee)
        /\ thr' = [thr EXCEPT ![c].pc = "sub_load", ![c].i = @ + 1]
        /\ UNCHANGED <<tce_state, vcpus, split, entry_exit_map, host_ipi, icp,
                       saved_xirr, intr>>

NextExit ==
    CommenceExit \/ ExitLoad \/ ExitCas \/ ExitSend \/ SubLoad \/ SubCas
    \/ SubSend

SpecExit == InitExit /\ [][NextExit]_vars

(***************************************************************************)
(* kvmppc_read_intr statement by statement on one thread, while the host   *)
(* and the other threads send it IPIs and a device raises its interrupt.   *)
(* The ICP presents the IPI while MFRR holds a priority, and the device's  *)
(* source while that is pending.                                           *)
(***************************************************************************)
InitIntr ==
    /\ pages = [p \in 0 .. (NumPages - 1) |-> [k \in 0 .. (TcesPerPage - 1) |-> 0]]
    /\ hw = [t \in Tables |-> [e \in ItEntries(t) |-> ClearedTce]]
    /\ it_userspace = [t \in Tables |-> [e \in ItEntries(t) |-> 0]]
    /\ mapped = [r \in Regions |-> 0]
    /\ groups = << >>
    /\ prereg = TRUE
    /\ call = Idle(Cur)
    /\ HvIdle

\* the sources the ICP can present on a load of XIRR
Pending ==
    (IF icp.mfrr # MfrrIdle THEN {XICS_IPI} ELSE {})
    \cup (IF icp.dev # 0 THEN {icp.dev} ELSE {})

\* results of kvmppc_deliver_irq_passthru
PassthruResults == {1, 2, -2}

\* the host sends this thread an IPI: flag first, then MFRR
HostSendIpi ==
    /\ host_ipi = 0
    /\ host_ipi' = 1
    /\ icp' = [icp EXCEPT !.mfrr = IPI_PRIORITY]
    /\ UNCHANGED <<tce_state, vcpus, split, entry_exit_map, thr, ipis, saved_xirr,
                   intr>>

\* the host, back in control of the thread, handles its IPI
HostTakeIpi ==
    /\ intr.pc = "none"
    /\ host_ipi = 1
    /\ host_ipi' = 0
    /\ icp' = [icp EXCEPT !.mfrr = MfrrIdle]
    /\ UNCHANGED <<tce_state, vcpus, split, entry_exit_map, thr, ipis, saved_xirr,
                   intr>>

\* kvmhv_rm_send_ipi on another thread: rm_writeb(xics_phys + XICS_MFRR,
\* IPI_PRIORITY)
kvmhv_rm_send_ipi ==
    /\ icp.mfrr = MfrrIdle
    /\ icp' = [icp EXCEPT !.mfrr = IPI_PRIORITY]
    /\ UNCHANGED <<tce_state, vcpus, split, entry_exit_map, thr, ipis, host_ipi,
                   saved_xirr, intr>>

\* a device raises its interrupt
DeviceInterrupt ==
    /\ icp.dev = 0
    /\ icp' = [icp EXCEPT !.dev = DevIrq]
    /\ UNCHANGED <<tce_state, vcpus, split, entry_exit_map, thr, ipis, host_ipi,
                   saved_xirr, intr>>

\* the call returns r
IntrDone(r) == intr' = [intr EXCEPT !.pc = "done", !.ret = r]

\* host_ipi = local_paca->kvm_hstate.host_ipi; if (host_ipi) return 1;
\* if (!xics_phys) return 1
ReadIntrEntry ==
    /\ intr.pc = "none"
    /\ \E phys \in BOOLEAN, path \in {0, 1} :
        intr' = [NoIntr EXCEPT !.entry_flag = host_ipi, !.xics_phys = phys,
                               !.path = path,
                               !.pc = IF host_ipi # 0 \/ ~phys THEN "done"
                                      ELSE "xirr",
                               !.ret = IF host_ipi # 0 \/ ~phys THEN 1 ELSE 0]
    /\ UNCHANGED <<tce_state, vcpus, split, entry_exit_map, thr, ipis, host_ipi, icp,
                   saved_xirr>>

\* xirr = _lwzcix(xics_phys + XICS_XIRR), saved; if (!xisr) return 0
ReadXirr ==
    /\ intr.pc = "xirr"
    /\ \E x \in (IF Pending = {} THEN {0} ELSE Pending) :
        /\ saved_xirr' = x
        /\ IF x = 0 THEN IntrDone(0)
           ELSE intr' = [intr EXCEPT !.xisr = x,
                                     !.pc = IF x = XICS_IPI THEN "clear"
                                            ELSE "passthru"]
    /\ UNCHANGED <<tce_state, vcpus, split, entry_exit_map, thr, ipis, host_ipi, icp>>

\* _stbcix(xics_phys + XICS_MFRR, 0xff)
ClearIpi ==
    /\ intr.pc = "clear"
    /\ icp' = [icp EXCEPT !.mfrr = MfrrIdle]
    /\ intr' = [intr EXCEPT !.pc = "eoi"]
    /\ UNCHANGED <<tce_state, vcpus, split, entry_exit_map, thr, ipis, host_ipi,
                   saved_xirr>>

\* _stwcix(xics_phys + XICS_XIRR, xirr)
EoiIpi ==
    /\ intr.pc = "eoi"
    /\ intr' = [intr EXCEPT !.pc = "recheck", !.acked = TRUE]
    /\ UNCHANGED <<tce_state, vcpus, split, entry_exit_map, thr, ipis, host_ipi, icp,
                   saved_xirr>>

\* the decision taken on the value of host_ipi loaded at entry
Recheck_stale ==
    /\ intr.pc = "recheck"
    /\ IF intr.entry_flag # 0
       THEN /\ icp' = [icp EXCEPT !.mfrr = IPI_PRIORITY]
            /\ intr' = [intr EXCEPT !.pc = "done", !.ret = 1,
                                    !.recheck_flag = host_ipi,
                                    !.resent = TRUE]
            /\ UNCHANGED saved_xirr
       ELSE /\ saved_xirr' = 0
            /\ intr' = [intr EXCEPT !.pc = "done", !.ret = -1,
                                    !.recheck_flag = host_ipi]
            /\ UNCHANGED icp
    /\ UNCHANGED <<tce_state, vcpus, split, entry_exit_map, thr, ipis, host_ipi>>

\* host_ipi loaded again; set: MFRR written with IPI_PRIORITY, return 1;
\* clear: saved_xirr = 0, return -1
Recheck ==
    /\ intr.pc = "recheck"
    /\ IF host_ipi # 0
       THEN /\ icp' = [icp EXCEPT !.mfrr = IPI_PRIORITY]
            /\ intr' = [intr EXCEPT !.pc = "done", !.ret = 1,
                                    !.recheck_flag = host_ipi,
                                    !.resent = TRUE]
            /\ UNCHANGED saved_xirr
       ELSE /\ saved_xirr' = 0
            /\ intr' = [intr EXCEPT !.pc = "done", !.ret = -1,
                                    !.recheck_flag = host_ipi]
            /\ UNCHANGED icp
    /\ UNCHANGED <<tce_state, vcpus, split, entry_exit_map, thr, ipis, host_ipi>>

\* not an IPI: the passthrough map, and kvmppc_deliver_irq_passthru when the
\* source is in it; the source is then no longer pending in the ICP
Passthru ==
    /\ intr.pc = "passthru"
    /\ \E r \in PassthruResults : IntrDone(r)
    /\ icp' = [icp EXCEPT !.dev = 0]
    /\ UNCHANGED <<tce_state, vcpus, split, entry_exit_map, thr, ipis, host_ipi,
                   saved_xirr>>

\* back to the caller; saved_xirr stays for the host's ICP driver
IntrReturn ==
    /\ intr.pc = "done"
    /\ intr' = NoIntr
    /\ UNCHANGED <<tce_state, vcpus, split, entry_exit_map, thr, ipis, host_ipi, icp,
                   saved_xirr>>

\* the host's ICP driver picks up the saved XIRR
HostTakeXirr ==
    /\ intr.pc = "none"
    /\ saved_xirr # 0
    /\ saved_xirr' = 0
    /\ UNCHANGED <<tce_state, vcpus, split, entry_exit_map, thr, ipis, host_ipi, icp,
                   intr>>

NextIntr ==
    HostSendIpi \/ HostTakeIpi \/ kvmhv_rm_send_ipi \/ DeviceInterrupt
    \/ ReadIntrEntry \/ ReadXirr \/ ClearIpi \/ EoiIpi \/ Recheck \/ Passthru
    \/ IntrReturn \/ HostTakeXirr

SpecIntr == InitIntr /\ [][NextIntr]_vars

(***************************************************************************)
(* kvmppc_rm_tce_iommu_map and kvmppc_rm_tce_iommu_unmap run by two vcpus  *)
(* on the same entry of the same IOMMU table, statement by statement in    *)
(* any interleaving, as kvmppc_rm_h_put_tce_iommu and                      *)
(* kvmppc_rm_h_stuff_tce_iommu call them: map with a direction, unmap for  *)
(* a clear.  No collaborator fails.                                        *)
(***************************************************************************)
RaceTbl == 1
RaceEntry == StOffset
\* a page of region 1 and a page of region 2
RaceGpas == {0, PageSize}

InitRace ==
    /\ pages = [p \in 0 .. (NumPages - 1) |-> [k \in 0 .. (TcesPerPage - 1) |-> 0]]
    /\ hw = [t \in Tables |-> [e \in ItEntries(t) |-> ClearedTce]]
    /\ it_userspace = [t \in Tables |-> [e \in ItEntries(t) |-> 0]]
    /\ mapped = [r \in Regions |-> 0]
    /\ groups = <<1>>
    /\ prereg = TRUE
    /\ call = Idle(Cur)
    /\ HvIdle

\* the vcpu's next statement, and back in the guest when the call is over
VcpuAt(v, pc) ==
    vcpus' = [vcpus EXCEPT ![v] = IF pc = "none" THEN VcpuIdle
                                  ELSE [@ EXCEPT !.pc = pc]]

\* kvmppc_rm_tce_iommu_map(vcpu, tbl, entry, gpa, dir) is called
RaceMap ==
    \E v \in RaceVcpus, gpa \in RaceGpas :
        /\ vcpus[v].pc = "none"
        /\ vcpus' = [vcpus EXCEPT ![v] = [VcpuIdle EXCEPT !.op = "map",
                                             !.pc = "lookup", !.gpa = gpa]]
        /\ UNCHANGED <<tce_state, split, entry_exit_map, thr, ipis, host_ipi,
                       icp, saved_xirr, intr>>

\* kvmppc_rm_tce_iommu_unmap(vcpu, tbl, entry) is called
RaceUnmap ==
    \E v \in RaceVcpus :
        /\ vcpus[v].pc = "none"
        /\ vcpus' = [vcpus EXCEPT ![v] = [VcpuIdle EXCEPT !.op = "unmap",
                                             !.pc = "xchg"]]
        /\ UNCHANGED <<tce_state, split, entry_exit_map, thr, ipis, host_ipi,
                       icp, saved_xirr, intr>>

\* map: kvmppc_gpa_to_ua, kvmppc_rm_iommu_lookup, mm_iommu_rm_ua_to_hpa
RaceLookup ==
    \E v \in RaceVcpus :
        /\ vcpus[v].pc = "lookup"
        /\ LET g == kvmppc_gpa_to_ua(vcpus[v].gpa)
               mem == kvmppc_rm_iommu_lookup(g.ua, PageSize, Nominal)
           IN  IF ~g.ok \/ mem = NoMem THEN VcpuAt(v, "none")
               ELSE vcpus' = [vcpus EXCEPT ![v].pc = "inc", ![v].mem = mem]
        /\ UNCHANGED <<tce_state, split, entry_exit_map, thr, ipis, host_ipi,
                       icp, saved_xirr, intr>>

\* map: mm_iommu_mapped_inc(mem)
RaceInc ==
    \E v \in RaceVcpus :
        /\ vcpus[v].pc = "inc"
        /\ mapped[vcpus[v].mem] < MaxMapped
        /\ mapped' = [mapped EXCEPT ![vcpus[v].mem] = @ + 1]
        /\ VcpuAt(v, "xchg")
        /\ UNCHANGED <<pages, hw, it_userspace, groups, prereg, call, split,
                       entry_exit_map, thr, ipis, host_ipi, icp, saved_xirr,
                       intr>>

\* iommu_tce_xchg_rm: the new entry of the map, or the cleared entry of the
\* unmap, for the entry that is there
RaceXchg ==
    \E v \in RaceVcpus :
        /\ vcpus[v].pc = "xchg"
        /\ LET new == IF vcpus[v].op = "unmap" THEN ClearedTce
                      ELSE [hpa |-> mm_iommu_rm_ua_to_hpa(vcpus[v].mem,
                                        kvmppc_gpa_to_ua(vcpus[v].gpa).ua),
                            dir |-> DMA_BIDIRECTIONAL]
               old == hw[RaceTbl][RaceEntry].dir
           IN  /\ hw' = [hw EXCEPT ![RaceTbl][RaceEntry] = new]
               /\ VcpuAt(v, IF old # DMA_NONE THEN "dec_load"
                            ELSE IF vcpus[v].op = "map" THEN "pua"
                            ELSE "none")
        /\ UNCHANGED <<pages, it_userspace, mapped, groups, prereg, call, split,
                       entry_exit_map, thr, ipis, host_ipi, icp, saved_xirr,
                       intr>>

\* kvmppc_rm_tce_iommu_mapped_dec: mem = kvmppc_rm_iommu_lookup(vcpu, *pua,
\* pgsize); without a region it returns H_HARDWARE, which the map ignores
RaceDecLoad ==
    \E v \in RaceVcpus :
        /\ vcpus[v].pc = "dec_load"
        /\ LET mem == kvmppc_rm_iommu_lookup(it_userspace[RaceTbl][RaceEntry],
                                             PageSize, Nominal)
           IN  IF mem = NoMem
               THEN VcpuAt(v, IF vcpus[v].op = "map" THEN "pua" ELSE "none")
               ELSE vcpus' = [vcpus EXCEPT ![v].pc = "dec", ![v].dmem = mem]
        /\ UNCHANGED <<tce_state, split, entry_exit_map, thr, ipis, host_ipi,
                       icp, saved_xirr, intr>>

\* kvmppc_rm_tce_iommu_mapped_dec: mm_iommu_mapped_dec(mem), which leaves a
\* counter with no mapping as it is
RaceDec ==
    \E v \in RaceVcpus :
        /\ vcpus[v].pc = "dec"
        /\ mapped' = [mapped EXCEPT ![vcpus[v].dmem] =
                          IF @ > 0 THEN @ - 1 ELSE @]
        /\ VcpuAt(v, "dec_clear")
        /\ UNCHANGED <<pages, hw, it_userspace, groups, prereg, call, split,
                       entry_exit_map, thr, ipis, host_ipi, icp, saved_xirr,
                       intr>>

\* kvmppc_rm_tce_iommu_mapped_dec: *pua = 0
RaceDecClear ==
    \E v \in RaceVcpus :
        /\ vcpus[v].pc = "dec_clear"
        /\ it_userspace' = [it_userspace EXCEPT ![RaceTbl][RaceEntry] = 0]
        /\ VcpuAt(v, IF vcpus[v].op = "map" THEN "pua" ELSE "none")
        /\ UNCHANGED <<pages, hw, mapped, groups, prereg, call, split,
                       entry_exit_map, thr, ipis, host_ipi, icp, saved_xirr,
                       intr>>

\* map: *pua = ua; return 0
RacePua ==
    \E v \in RaceVcpus :
        /\ vcpus[v].pc = "pua"
        /\ it_userspace' = [it_userspace EXCEPT ![RaceTbl][RaceEntry] =
                                kvmppc_gpa_to_ua(vcpus[v].gpa).ua]
        /\ VcpuAt(v, "none")
        /\ UNCHANGED <<pages, hw, mapped, groups, prereg, call, split,
                       entry_exit_map, thr, ipis, host_ipi, icp, saved_xirr,
                       intr>>

NextRace ==
    RaceMap \/ RaceUnmap \/ RaceLookup \/ RaceInc \/ RaceXchg \/ RaceDecLoad
    \/ RaceDec \/ RaceDecClear \/ RacePua

SpecRace == InitRace /\ [][NextRace]_vars

(***************************************************************************)
(* Properties.  In a state with call.fn # "none" the variables hold the    *)
(* state the call left and call.pre the state it started from.             *)
(***************************************************************************)
\* the tables of the attached groups
Attached == {groups[i] : i \in 1 .. Len(groups)}
\* the indices of the table
StIndices == StOffset .. (StOffset + StSize - 1)
\* the entry the store holds for an index of the table
Content(s, idx) ==
    s.pages[(idx - StOffset) \div TcesPerPage][(idx - StOffset) % TcesPerPage]
\* the hardware entries that hold a direction and point into region r
Live(s, r) ==
    {te \in Tables \X (StOffset .. (StOffset + 1)) :
        /\ te[2] \in ItEntries(te[1])
        /\ s.hw[te[1]][te[2]].dir # DMA_NONE
        /\ s.hw[te[1]][te[2]].hpa >= RegionHpa(r)
        /\ s.hw[te[1]][te[2]].hpa < RegionHpa(r) + PageSize}
\* the index the call names
CallIdx == call.ioba \div PageSize

\* C1: kvmppc_ioba_validate returns H_SUCCESS exactly when ioba is page
\* aligned, idx >= offset and idx + npages <= offset + size, and H_PARAMETER
\* in every other case.
CE_C1 ==
    call.fn = "kvmppc_ioba_validate" =>
        LET ok == /\ call.ioba % PageSize = 0
                  /\ CallIdx >= StOffset
                  /\ CallIdx + call.npages <= StOffset + StSize
        IN  call.ret = (IF ok THEN H_SUCCESS ELSE H_PARAMETER)

\* the checks kvmppc_rm_h_put_tce makes before it walks the groups
PutReachesGroups ==
    /\ kvmppc_find_table(call.liobn)
    /\ kvmppc_ioba_validate(call.ioba, 1) = H_SUCCESS
    /\ kvmppc_tce_validate(call.tce) = H_SUCCESS

\* C2: H_PUT_TCE writes the entry store only after the map/unmap step has
\* succeeded for every attached group; when the step fails for a group the
\* call returns that group's failure code and no entry of the store changes.
Thm_C2 ==
    call.fn = "kvmppc_rm_h_put_tce" =>
        LET first == kvmppc_rm_h_put_tce_iommu(call.pre, groups[1], call.ioba,
                                               call.tce, call.env)
            last == kvmppc_rm_h_put_tce_iommu(first.s, groups[Len(groups)],
                                              call.ioba, call.tce, call.env)
        IN  /\ call.ret # H_SUCCESS => pages = call.pre.pages
            /\ pages # call.pre.pages =>
                   \A t \in Attached :
                       /\ CallIdx \in ItEntries(t)
                       /\ hw[t][CallIdx].dir = iommu_tce_direction(call.tce)
            /\ (PutReachesGroups /\ Len(groups) > 0) =>
                   /\ first.ret # H_SUCCESS => call.ret = first.ret
                   /\ (first.ret = H_SUCCESS /\ last.ret # H_SUCCESS) =>
                          call.ret = last.ret

\* a H_PUT_TCE on a filled store that the second table refused after the
\* first table was updated
Wit_C2 ==
    /\ call.fn = "kvmppc_rm_h_put_tce"
    /\ Len(groups) > 0
    /\ PutReachesGroups
    /\ \E idx \in StIndices : Content(Cur, idx) # 0
    /\ call.ret = H_PARAMETER
    /\ hw # call.pre.hw
    /\ pages = call.pre.pages

\* the pre-flight check H_PUT_TCE makes for table t refuses the call
PutRefused(t) ==
    IF iommu_tce_direction(call.tce) = DMA_NONE
    THEN iommu_tce_clear_param_check(t, call.ioba, 0, 1)
    ELSE iommu_tce_put_param_check(t, call.ioba, TceGpa(call.tce))

\* C3: with two attached groups of which the second refuses the request,
\* H_PUT_TCE leaves the entry store unmodified and the first group's mapping
\* is not installed: its hardware entry and the regions' counters are as
\* before the call.
CE_C3 ==
    (/\ call.fn = "kvmppc_rm_h_put_tce"
     /\ groups = <<1, 1, 2>>
     /\ PutReachesGroups
     /\ ~PutRefused(1)
     /\ PutRefused(2)
     /\ call.ret = H_PARAMETER)
    => /\ pages = call.pre.pages
       /\ hw[1] = call.pre.hw[1]
       /\ mapped = call.pre.mapped

\* the checks kvmppc_rm_h_put_tce_indirect makes before it walks the groups
\* on the path with preregistered memory
IndirectReachesGroups ==
    /\ kvmppc_find_table(call.liobn)
    /\ call.npages <= MaxTceListLen
    /\ call.tce_list % PageSize = 0
    /\ kvmppc_ioba_validate(call.ioba, call.npages) = H_SUCCESS
    /\ prereg
    /\ kvmppc_gpa_to_ua(call.tce_list).ok
    /\ kvmppc_rm_iommu_lookup(kvmppc_gpa_to_ua(call.tce_list).ua, PageSize,
                              call.env) # NoMem

\* C4: in H_PUT_TCE_INDIRECT the validation of every list entry against
\* every attached group is complete before anything is changed: when an
\* entry is refused for any group the call fails and no hardware entry, no
\* counter and no entry of the store has changed.
CE_C4 ==
    (/\ call.fn = "kvmppc_rm_h_put_tce_indirect"
     /\ IndirectReachesGroups
     /\ \E t \in Attached :
            IndirectRefused(t, call.ioba, call.tces, call.npages))
    => /\ call.ret # H_SUCCESS
       /\ Cur = call.pre

\* the n calls H_PUT_TCE(liobn, ioba + i * page size, tces[i]), i = 0 .. n-1
RECURSIVE PutSequence(_, _, _, _, _, _, _)
PutSequence(s, liobn, ioba, tces, i, npages, F) ==
    IF i >= npages THEN s
    ELSE PutSequence(
             kvmppc_rm_h_put_tce(s, liobn, ioba + i * PageSize, tces[i + 1], F).s,
             liobn, ioba, tces, i + 1, npages, F)

\* C5: a H_PUT_TCE_INDIRECT that returns H_SUCCESS leaves the entry store,
\* the hardware tables and the counters as the n successive H_PUT_TCE calls
\* on its entries would, entries without direction included.
CE_C5 ==
    (/\ call.fn = "kvmppc_rm_h_put_tce_indirect"
     /\ call.ret = H_SUCCESS)
    => LET q == PutSequence(call.pre, call.liobn, call.ioba, call.tces, 0,
                            call.npages, call.env)
       IN  /\ pages = q.pages
           /\ hw = q.hw
           /\ mapped = q.mapped

\* C6: after any sequence of H_PUT_TCE, H_PUT_TCE_INDIRECT and H_STUFF_TCE
\* calls every region's counter is the number of hardware entries that hold
\* a direction and point into the region, and it is never negative.
CE_C6 ==
    \A r \in Regions :
        /\ mapped[r] = Cardinality(Live(Cur, r))
        /\ mapped[r] >= 0

\* C7: a validated entry value written at an index that kvmppc_ioba_validate
\* accepts is what H_GET_TCE then reads at that index, and the write changes
\* no other index of the entry store.
CE_C7 ==
    (/\ call.fn = "kvmppc_rm_h_put_tce"
     /\ call.ret = H_SUCCESS)
    => /\ \A stray \in Tces :
              LET g == kvmppc_h_get_tce(Cur, call.liobn, call.ioba, stray)
              IN  g.ret = H_SUCCESS /\ g.gpr4 = call.tce
       /\ \A idx \in StIndices \ {CallIdx} :
              Content(Cur, idx) = Content(call.pre, idx)

\* C8: after H_STUFF_TCE(ioba, 0, n) has returned H_SUCCESS, H_GET_TCE
\* returns 0 on each of the n indices, and the same H_STUFF_TCE once more
\* returns H_SUCCESS and leaves the entry store, the hardware tables and the
\* counters as the first call left them.
CE_C8 ==
    (/\ call.fn = "kvmppc_rm_h_stuff_tce"
     /\ call.tce = 0
     /\ call.ret = H_SUCCESS)
    => /\ \A i \in 0 .. (call.npages - 1), stray \in Tces :
              LET g == kvmppc_h_get_tce(Cur, call.liobn,
                                        call.ioba + i * PageSize, stray)
              IN  g.ret = H_SUCCESS /\ g.gpr4 = 0
       /\ \A F \in Envs :
              LET again == kvmppc_rm_h_stuff_tce(Cur, call.liobn, call.ioba, 0,
                                                 call.npages, F)
              IN  /\ again.ret = H_SUCCESS
                  /\ [again.s EXCEPT !.failed = FALSE] = Cur

\* C9: H_STUFF_TCE only clears: a value with a direction flag or one that
\* kvmppc_tce_validate refuses is rejected with H_PARAMETER and changes
\* nothing; when the call returns H_SUCCESS every index of the range is
\* without direction in every attached table, every entry of the store in
\* the range holds the value and the entries outside the range are unchanged.
CE_C9 ==
    (call.fn = "kvmppc_rm_h_stuff_tce" /\ kvmppc_find_table(call.liobn)) =>
        LET range == CallIdx .. (CallIdx + call.npages - 1)
        IN  /\ (TceFlags(call.tce) # 0
                \/ kvmppc_tce_validate(call.tce) # H_SUCCESS) =>
                   call.ret = H_PARAMETER /\ Cur = call.pre
            /\ call.ret = H_SUCCESS =>
                   /\ \A t \in Attached, e \in range :
                          e \in ItEntries(t) /\ hw[t][e].dir = DMA_NONE
                   /\ \A idx \in StIndices :
                          Content(Cur, idx) =
                              (IF idx \in range THEN call.tce
                               ELSE Content(call.pre, idx))

\* C10: H_GET_TCE changes neither the entry store nor a hardware table nor a
\* counter, whatever it returns, and when it returns H_SUCCESS the value is
\* the entry store's content at index ioba >> page_shift.
CE_C10 ==
    call.fn = "kvmppc_h_get_tce" =>
        /\ Cur = call.pre
        /\ call.ret = H_SUCCESS =>
               CallIdx \in StIndices /\ call.gpr4 = Content(Cur, CallIdx)

\* the four entry points
Hypercalls ==
    {"kvmppc_rm_h_put_tce", "kvmppc_rm_h_put_tce_indirect",
     "kvmppc_rm_h_stuff_tce", "kvmppc_h_get_tce"}

\* C11: each of H_PUT_TCE, H_PUT_TCE_INDIRECT, H_STUFF_TCE and H_GET_TCE
\* returns H_TOO_HARD when no table has the liobn, whatever the other
\* arguments are, and changes no state.
Thm_C11 ==
    (call.fn \in Hypercalls /\ ~kvmppc_find_table(call.liobn)) =>
        /\ call.ret = H_TOO_HARD
        /\ Cur = call.pre
        /\ call.gpr4 = NoValue

\* a H_PUT_TCE_INDIRECT with a liobn no table has and a list over the limit,
\* on a store that holds an entry
Wit_C11 ==
    /\ call.fn = "kvmppc_rm_h_put_tce_indirect"
    /\ ~kvmppc_find_table(call.liobn)
    /\ call.npages > MaxTceListLen
    /\ call.ret = H_TOO_HARD
    /\ \E idx \in StIndices : Content(Cur, idx) # 0

\* C12: a H_PUT_TCE_INDIRECT with npages over 512 on a table of the registry
\* returns H_PARAMETER; it loads no entry of the list and changes neither the
\* entry store nor a hardware table nor a counter.
Thm_C12 ==
    (call.fn = "kvmppc_rm_h_put_tce_indirect" /\ call.npages > MaxTceListLen)
    => /\ kvmppc_find_table(call.liobn) => call.ret = H_PARAMETER
       /\ call.reads = 0
       /\ Cur = call.pre

\* a list of 513 entries for the table, whose first index the table and the
\* attached tables would accept
Wit_C12 ==
    /\ call.fn = "kvmppc_rm_h_put_tce_indirect"
    /\ kvmppc_find_table(call.liobn)
    /\ call.npages = MaxTceListLen + 1
    /\ Len(call.tces) = call.npages
    /\ kvmppc_ioba_validate(call.ioba, call.npages) = H_SUCCESS
    /\ Len(groups) > 0 /\ prereg
    /\ call.ret = H_PARAMETER

\* the attached tables whose entry at the call's index held a direction
\* before the call while no region owns the address recorded for it
Orphaned ==
    {t \in Attached :
        /\ CallIdx \in ItEntries(t)
        /\ call.pre.hw[t][CallIdx].dir # DMA_NONE
        /\ kvmppc_rm_iommu_lookup(call.pre.pua[t][CallIdx], PageSize,
                                  call.env) = NoMem}

\* C15: when the entry an unmap removes held a direction and no region owns
\* the address recorded for it, the unmap returns H_SUCCESS, and the clearing
\* H_PUT_TCE that made it returns H_SUCCESS and writes the cleared entry to
\* the entry store.
CE_C15 ==
    (/\ call.fn = "kvmppc_rm_h_put_tce"
     /\ PutReachesGroups
     /\ iommu_tce_direction(call.tce) = DMA_NONE
     /\ call.env = LostEnv
     /\ CallIdx \in StIndices
     /\ \A t \in Attached : ~PutRefused(t)
     /\ Orphaned # {})
    => /\ \A t \in Orphaned :
              kvmppc_rm_tce_iommu_unmap(call.pre, t, CallIdx, call.env).ret
                  = H_SUCCESS
       /\ call.ret = H_SUCCESS
       /\ Content(Cur, CallIdx) = call.tce

\* C16: whenever a map, an unmap, an exchange or the release of a reference
\* made for H_PUT_TCE, H_PUT_TCE_INDIRECT or H_STUFF_TCE reports a failure,
\* the hypercall returns a code other than H_SUCCESS.
CE_C16 ==
    (/\ call.fn \in {"kvmppc_rm_h_put_tce", "kvmppc_rm_h_put_tce_indirect",
                     "kvmppc_rm_h_stuff_tce"}
     /\ call.failed)
    => call.ret # H_SUCCESS

\* the entry the call means for index idx
Meant(idx) ==
    IF call.fn = "kvmppc_rm_h_put_tce" THEN call.tce
    ELSE call.tces[idx - CallIdx + 1]

\* the indices of the table the call names
CallRange ==
    IF call.fn = "kvmppc_rm_h_put_tce" THEN {CallIdx} \cap StIndices
    ELSE {idx \in StIndices : idx >= CallIdx /\ idx < CallIdx + call.npages}

\* C17: after a H_PUT_TCE or a H_PUT_TCE_INDIRECT, whatever it returns, each
\* single index has been updated in every attached table and in the entry
\* store, or in none of them.
CE_C17 ==
    (/\ call.fn \in {"kvmppc_rm_h_put_tce", "kvmppc_rm_h_put_tce_indirect"}
     /\ kvmppc_find_table(call.liobn)
     /\ call.npages <= MaxTceListLen)
    => \A idx \in CallRange :
           LET touched ==
                   \/ Content(Cur, idx) # Content(call.pre, idx)
                   \/ \E t \in Attached :
                          idx \in ItEntries(t)
                          /\ hw[t][idx] # call.pre.hw[t][idx]
               updated ==
                   /\ Content(Cur, idx) = Meant(idx)
                   /\ \A t \in Attached :
                          idx \in ItEntries(t)
                          /\ hw[t][idx].dir = iommu_tce_direction(Meant(idx))
           IN  touched => updated

\* the region a hardware entry points into (NoMem for none)
RegionOf(tce) ==
    IF \E r \in Regions : tce.hpa >= RegionHpa(r)
                          /\ tce.hpa < RegionHpa(r) + PageSize
    THEN CHOOSE r \in Regions : tce.hpa >= RegionHpa(r)
                               /\ tce.hpa < RegionHpa(r) + PageSize
    ELSE NoMem

\* C18: in kvmppc_rm_tce_iommu_map the new region's counter is raised before
\* the exchange, and the counter of the mapping the entry held is lowered
\* only after the exchange has succeeded; at no point of the call is a
\* region's counter zero while a hardware entry with a direction points
\* into the region.
Thm_C18 ==
    call.fn = "kvmppc_rm_tce_iommu_map" =>
        /\ call.pc \in {"lookup", "inc"} =>
               mapped = call.pre.mapped /\ hw = call.pre.hw
        /\ call.pc = "xchg" =>
               /\ hw = call.pre.hw
               /\ mapped = [call.pre.mapped EXCEPT ![call.mem] = @ + 1]
        /\ call.pc = "dec" =>
               /\ RegionOf(hw[call.tbl][call.entry]) = call.mem
               /\ call.pre.hw[call.tbl][call.entry].dir # DMA_NONE
               /\ mapped = [call.pre.mapped EXCEPT ![call.mem] = @ + 1]
        /\ \A r \in Regions : Live(Cur, r) # {} => mapped[r] > 0

\* the exchange has replaced a mapping into one region by a mapping into
\* another, and the old region's reference is still held
Wit_C18 ==
    /\ call.fn = "kvmppc_rm_tce_iommu_map"
    /\ call.pc = "dec"
    /\ call.pre.hw[call.tbl][call.entry].dir # DMA_NONE
    /\ RegionOf(call.pre.hw[call.tbl][call.entry]) # NoMem
    /\ RegionOf(call.pre.hw[call.tbl][call.entry]) # call.mem
    /\ mapped[RegionOf(call.pre.hw[call.tbl][call.entry])] = 1
    /\ hw[call.tbl][call.entry].dir # DMA_NONE

\* a map call that has returned
MapReturned == call.fn = "kvmppc_rm_tce_iommu_map" /\ call.pc = "done"

\* the region the call's address lies in (NoMem: no memory slot or no region)
MapTarget ==
    LET g == kvmppc_gpa_to_ua(call.gpa)
    IN  IF g.ok THEN kvmppc_rm_iommu_lookup(g.ua, PageSize, call.env)
        ELSE NoMem

\* the entry held a mapping into region r when the call was made
Replaced(r) ==
    /\ call.pre.hw[call.tbl][call.entry].dir # DMA_NONE
    /\ RegionOf(call.pre.hw[call.tbl][call.entry]) = r

Passed(c) == thr[c].pc \in {"send", "sub_load", "sub_cas", "sub_send", "done"}

\* no thread outside vcore v has entered kvmhv_commence_exit
OnlyVcore(v) ==
    \A c \in Cpus : VcoreOf(c) # v => thr[c].pc \in {"guest", "out"}

\* C13: of the threads of one vcore that run kvmhv_commence_exit
\* concurrently on a word with no exit bits set, exactly one finds ee >> 8
\* zero and goes on to interrupt the others; every other caller finds it
\* non-zero, returns and sends nothing.
Thm_C13 ==
    \A v \in Vcores :
        LET callers == {c \in Cpus : VcoreOf(c) = v /\ Passed(c)}
            firsts == {c \in callers : thr[c].first}
        IN  /\ Cardinality(firsts) <= 1
            /\ (callers # {} /\ OnlyVcore(v)) => Cardinality(firsts) = 1
            /\ \A c \in callers \ firsts :
                   /\ thr[c].pc = "done"
                   /\ thr[c].ee \div 256 # 0
                   /\ \A d \in Cpus : ipis[c][d] = 0

\* the four threads of a whole core have all left; one of them was first
\* and interrupted another
Wit_C13 ==
    /\ ~split
    /\ \A c \in Cpus : thr[c].pc = "done"
    /\ \E c \in Cpus : thr[c].first /\ \E d \in Cpus : ipis[c][d] = 1

\* the kvmhv_rm_send_ipi calls made for thread d
Received(d) == ipis[0][d] + ipis[1][d] + ipis[2][d] + ipis[3][d]

\* threads A, B, C and D of one vcore: A, B and C entered the guest, D is
\* out of it
ThreadA == 0
ThreadB == 1
ThreadC == 2
ThreadD == 3
Scenario ==
    /\ ~split
    /\ BitsOf(entry_exit_map[1]) \cap (0 .. 7) = {ThreadA, ThreadB, ThreadC}

\* C14 as stated: A has left the guest on an interrupt other than the
\* hypervisor decrementer while B and C are in the guest or have left it
\* too: B and C were sent one interrupt each, D and A none.
CE_C14 ==
    (/\ Scenario
     /\ thr[ThreadA].pc = "done"
     /\ thr[ThreadA].trap # BOOK3S_INTERRUPT_HV_DECREMENTER
     /\ thr[ThreadB].pc \in {"guest", "done"}
     /\ thr[ThreadC].pc \in {"guest", "done"})
    => /\ Received(ThreadB) = 1
       /\ Received(ThreadC) = 1
       /\ Received(ThreadD) = 0
       /\ Received(ThreadA) = 0

\* C14 amended: the thread f of A, B, C that set its exit bit first sends
\* one interrupt to each of the other two (none when it left on the
\* hypervisor decrementer); D, f itself and every thread at any other moment
\* are sent none, whichever of B and C leave concurrently.
Thm_C14 ==
    Scenario =>
        /\ \A f \in Cpus :
               (thr[f].first /\ thr[f].pc = "done") =>
                   \A d \in Cpus :
                       Received(d) =
                           IF /\ d \in {ThreadA, ThreadB, ThreadC} \ {f}
                              /\ thr[f].trap # BOOK3S_INTERRUPT_HV_DECREMENTER
                           THEN 1 ELSE 0
        /\ \A d \in Cpus : Received(d) <= 1
        /\ Received(ThreadD) = 0
        /\ \A c \in Cpus : ~thr[c].first => \A d \in Cpus : ipis[c][d] = 0

\* A was first, B has left concurrently, and B and C were interrupted once
Wit_C14 ==
    /\ Scenario
    /\ thr[ThreadA].first
    /\ thr[ThreadA].pc = "done"
    /\ thr[ThreadB].pc = "done"
    /\ Received(ThreadB) = 1
    /\ Received(ThreadC) = 1
    /\ Received(ThreadA) = 0

\* C20: kvmppc_read_intr never takes the host's IPI for a guest wake-up.
\* With host_ipi set at entry it returns 1; with host_ipi set when it is
\* loaded again after the IPI was cleared and acknowledged it returns 1 and
\* has written IPI_PRIORITY to MFRR; it returns -1 only when host_ipi was
\* clear at that second load.
Thm_C20 ==
    intr.pc = "done" =>
        /\ intr.entry_flag # 0 => intr.ret = 1 /\ ~intr.acked
        /\ (intr.acked /\ intr.recheck_flag # 0) =>
               /\ intr.ret = 1
               /\ intr.resent
               /\ icp.mfrr = IPI_PRIORITY
        /\ intr.ret = -1 =>
               /\ intr.acked
               /\ intr.entry_flag = 0
               /\ intr.recheck_flag = 0
               /\ ~intr.resent

\* the host's IPI arrived between the first load of host_ipi and the second
Wit_C20 ==
    /\ intr.pc = "done"
    /\ intr.entry_flag = 0
    /\ intr.acked
    /\ intr.recheck_flag # 0
    /\ intr.ret = 1
    /\ icp.mfrr = IPI_PRIORITY

\* the threads that take a step
Stepping == {c \in Cpus : thr'[c] # thr[c]}

\* C21: every change kvmhv_commence_exit makes to a word of entry_exit_map
\* is the success of a compare-and-swap on the value the thread loaded, and
\* only adds bits: bits 0-7 stay as they are, no set bit is cleared, the one
\* exit bit a thread sets is 0x100 << ptid of its own vcore's word, and the
\* only other bit set is VCORE_EXIT_REQ in the word of another vcore.
Thm_C21 ==
    [][\A v \in Vcores :
          entry_exit_map'[v] # entry_exit_map[v] =>
              \E c \in Stepping :
                  /\ thr[c].pc \in {"cas", "sub_cas"}
                  /\ thr[c].ee = entry_exit_map[v]
                  /\ BitsOf(entry_exit_map[v]) \subseteq BitsOf(entry_exit_map'[v])
                  /\ BitsOf(entry_exit_map'[v]) \ BitsOf(entry_exit_map[v]) =
                         IF thr[c].pc = "cas" THEN {8 + Ptid(c)} ELSE {16}
                  /\ (thr[c].pc = "cas") = (v = VcoreOf(c))]_vars

\* a thread's compare-and-swap has failed on a word another thread changed,
\* and the other sub-core's word carries the exit request
Wit_C21 ==
    /\ split
    /\ \E c \in Cpus :
           /\ thr[c].pc = "load"
           /\ thr[c].trap # 0
           /\ thr[c].ee # entry_exit_map[VcoreOf(c)]
    /\ \E v \in Vcores : 16 \in BitsOf(entry_exit_map[v])
                         /\ BitsOf(entry_exit_map[v]) \cap (0 .. 7) # {}

\* C22: with the core split, the thread that is first to leave its vcore
\* asks every other sub-core to exit; a sub-core whose exit field is not
\* zero is passed over without an interrupt.  Whatever the interleaving,
\* every thread is interrupted at most once, only threads in the guest are
\* interrupted, a thread is interrupted from another sub-core only under that
\* sub-core's VCORE_EXIT_REQ, and the first thread interrupts its own vcore
\* once and itself never.
Thm_C22 ==
    split =>
        /\ \A d \in Cpus :
               /\ Received(d) <= 1
               /\ Received(d) = 1 => Ptid(d) \in BitsOf(entry_exit_map[VcoreOf(d)])
               /\ ipis[d][d] = 0
        /\ \A c, d \in Cpus :
               (VcoreOf(c) # VcoreOf(d) /\ ipis[c][d] > 0) =>
                   /\ 16 \in BitsOf(entry_exit_map[VcoreOf(d)])
                   /\ thr[c].first
        /\ \A c \in Cpus :
               (thr[c].first /\ thr[c].pc = "done") =>
                   \A v \in Vcores : entry_exit_map[v] \div 256 # 0

\* thread 0 was first in its vcore and interrupted the other sub-core;
\* thread 2 of that sub-core has left too, after the request
Wit_C22 ==
    /\ split
    /\ thr[0].first /\ thr[0].pc = "done"
    /\ ipis[0][1] = 1 /\ ipis[0][2] = 1 /\ ipis[0][3] = 1
    /\ thr[2].pc = "done" /\ ~thr[2].first

\* the indices of the entry store a call that succeeds has read or written
Accessed ==
    {CallIdx + i : i \in 0 .. ((IF call.fn \in {"kvmppc_rm_h_put_tce",
                                               "kvmppc_h_get_tce"}
                                THEN 1 ELSE call.npages) - 1)}

\* C24: every index a hypercall reads or writes in the entry store after
\* kvmppc_ioba_validate has accepted its arguments lies in the table,
\* offset <= index < offset + size.
CE_C24 ==
    (call.fn \in Hypercalls /\ call.ret = H_SUCCESS) =>
        Accessed \subseteq StIndices

\* the call gets as far as lock_rmap: table found, list not too long and
\* aligned, range accepted, memory not preregistered, list page in a memslot
TakesLock ==
    /\ kvmppc_find_table(call.liobn)
    /\ call.npages <= MaxTceListLen
    /\ call.tce_list % PageSize = 0
    /\ kvmppc_ioba_validate(call.ioba, call.npages) = H_SUCCESS
    /\ ~prereg
    /\ kvmppc_gpa_to_ua(call.tce_list).ok

\* C26: kvmppc_rm_h_put_tce_indirect returns with the rmap lock released:
\* when it took the lock it has released it exactly once, whether it returns
\* H_SUCCESS, H_TOO_HARD from the page-table walk or H_PARAMETER from a bad
\* entry of the list, and otherwise it has neither taken nor released it.
Thm_C26 ==
    call.fn = "kvmppc_rm_h_put_tce_indirect" =>
        /\ ~call.rmap
        /\ call.locks = (IF TakesLock THEN 1 ELSE 0)
        /\ call.unlocks = call.locks

\* the page-table walk gave up under the lock
Wit_C26 ==
    /\ call.fn = "kvmppc_rm_h_put_tce_indirect"
    /\ TakesLock
    /\ call.env.ptefail
    /\ call.ret = H_TOO_HARD
    /\ call.locks = 1

\* C25: when the two vcpus have finished their maps and unmaps of the one
\* entry, each region's counter is the number of hardware entries that point
\* into it, and the userspace address recorded for the entry is zero exactly
\* when the hardware entry is empty.
CE_C25 ==
    (\A v \in RaceVcpus : vcpus[v].pc = "none") =>
        /\ \A r \in Regions : mapped[r] = Cardinality(Live(Cur, r))
        /\ (it_userspace[RaceTbl][RaceEntry] = 0)
               = (hw[RaceTbl][RaceEntry].dir = DMA_NONE)

(***************************************************************************)
(* Termination.  The hypercalls and kvmhv_commence_exit share no state:    *)
(* either the vcpus run hypercalls while every thread of the core is in    *)
(* the host, or the threads that start in the guest leave it.  A thread in *)
(* real mode runs with interrupts off and is not preempted, so a thread    *)
(* inside kvmhv_commence_exit keeps taking steps, and a hypercall that has *)
(* its result returns to the guest.  The hypercalls run without            *)
(* preregistered memory, where H_PUT_TCE_INDIRECT takes the rmap lock.     *)
(***************************************************************************)
InHost == \A c \in Cpus : thr[c].pc = "out"

\* the threads that start in the guest in a run that checks termination
MaxExiting == 3

InitTerm ==
    \/ Init /\ ~prereg
    \/ /\ InitExit
       /\ ~InHost
       /\ Cardinality({c \in Cpus : thr[c].pc = "guest"}) <= MaxExiting

NextTerm ==
    \/ InHost /\ Put
    \/ InHost /\ PutIndirect
    \/ InHost /\ Stuff
    \/ InHost /\ Get
    \/ InHost /\ Return
    \/ NextExit

SpecTerm ==
    /\ InitTerm
    /\ [][NextTerm]_vars
    /\ WF_vars(Return)
    /\ WF_vars(ExitLoad \/ ExitCas \/ ExitSend \/ SubLoad \/ SubCas \/ SubSend)

ResultCodes == {H_SUCCESS, H_PARAMETER, H_TOO_HARD, H_HARDWARE}

\* the thread is inside kvmhv_commence_exit
Exiting(c) == thr[c].pc \notin {"out", "guest", "done"}

====
